---- MODULE Spec2Model ----
(***************************************************************************)
(* llmcommit: the result cache (ModelCache), the caching client            *)
(* (CachedLLMClient) and the cache maintenance CLI (cache_cli.main),       *)
(* modelled from src/src/llmcommit/model_cache.py and cache_cli.py.        *)
(*                                                                         *)
(* A message is a sequence of one-character strings.  A diff, a model      *)
(* identifier and the content a key is derived from are run-length encoded *)
(* strings: a sequence of runs [c, n] (character c repeated n >= 1 times)  *)
(* in which adjacent runs have different characters, so that equal strings *)
(* have equal encodings and a diff longer than 500 characters stays small. *)
(* Time is in seconds.  The platform is POSIX (the daemon uses fork and    *)
(* Unix sockets), so Path.write_text stores the text unchanged and         *)
(* Path.read_text applies Python's universal-newline translation.          *)
(***************************************************************************)
EXTENDS Integers, Sequences, FiniteSets, TLC

VARIABLES
    blobs,        \* outputs/<key>.txt : key -> [content, mtime]
    metaFile,     \* cache_metadata.json : [state, doc]
    metadata,     \* ModelCache.metadata of the long-lived store instance
    now,          \* time.time()
    modelInfo,    \* models/<model_key>.json : model_key -> [loaded_at]
    model_name,   \* CachedLLMClient.model_name
    llm_client,   \* CachedLLMClient._llm_client: 0 is None, n the n-th engine built
    engines,      \* engines the current CachedLLMClient instance has constructed
    cli,          \* the running cache_cli process, if any
    writes,       \* number of save_message calls so far (bounded)
    out,          \* outcome of the operation performed by the last step
    procs,        \* the processes: pid -> the daemon (ModelServer) it runs
    sockFile,     \* /tmp/llmcommit.sock: 0 when absent, else the pid that bound it
    pidFile,      \* ~/.llmcommit/server.pid: [state, pid]
    conns,        \* the connections made to the socket: id -> both ends' state
    sup,          \* the running start_server_daemon call, if any
    run,          \* the running llmcommit command (main.main), if any
    store2,       \* the metadata held in memory by a second ModelCache instance
    configFile    \* the configuration file given to load_config and save_config

vars == <<blobs, metaFile, metadata, now, modelInfo, model_name, llm_client,
          engines, cli, writes, out, procs, sockFile, pidFile, conns, sup,
          run, store2, configFile>>

\* what the commands outside the cache and the daemon work on
toolVars == <<run, store2, configFile>>

cacheState == <<blobs, metaFile, metadata, modelInfo, model_name, llm_client,
                engines, cli, writes>>
daemonState == <<procs, sockFile, pidFile, conns, sup>>

\* the frame of a step of the daemon and of its peers and supervisor
cacheVars == <<cacheState, toolVars>>
\* the frame of a step of the cache and of its clients
daemonVars == <<daemonState, toolVars>>

storeVars == <<blobs, metaFile, metadata>>
clientVars == <<modelInfo, model_name, llm_client, engines>>

----------------------------------------------------------------------------
(* Bounds of the model *)

MaxNow == 172799
MaxWrites == 2
MaxDays == 1
MaxProcs == 2
MaxConns == 2

(* Program constants *)

ValidAge == 86400
PrefixLen == 500
SecondsPerDay == 86400
Backlog == 1

----------------------------------------------------------------------------
(* Inputs *)

(* Run-length encoded strings *)

Rep(c, n) == IF n > 0 THEN << [c |-> c, n |-> n] >> ELSE << >>

\* a + b
Cat(a, b) ==
    IF a = << >> THEN b
    ELSE IF b = << >> THEN a
    ELSE IF a[Len(a)].c = b[1].c
         THEN SubSeq(a, 1, Len(a) - 1)
              \o << [c |-> b[1].c, n |-> a[Len(a)].n + b[1].n] >>
              \o Tail(b)
         ELSE a \o b

\* the string with the characters of seq
RECURSIVE Str(_)
Str(seq) == IF seq = << >> THEN << >> ELSE Cat(Rep(Head(seq), 1), Str(Tail(seq)))

\* len(s)
RECURSIVE StrLen(_)
StrLen(s) == IF s = << >> THEN 0 ELSE s[1].n + StrLen(Tail(s))

\* s[:n]
RECURSIVE Take(_, _)
Take(s, n) ==
    IF s = << >> \/ n <= 0 THEN << >>
    ELSE IF s[1].n >= n THEN Rep(s[1].c, n)
         ELSE << s[1] >> \o Take(Tail(s), n - s[1].n)

----------------------------------------------------------------------------
(* Inputs *)

CR == "\r"
LF == "\n"

Pad == Rep("a", PrefixLen)

Models == { Str(<<"m">>), Str(<<"m", ":">>) }

Diffs == { Str(<<"x">>), Str(<<":", "x">>), Cat(Pad, Str(<<"x">>)), Cat(Pad, Str(<<"y">>)) }

Texts == { <<>>, <<"o", "k">>, <<"a", CR, LF, "b">> }

Deltas == { ValidAge - 1, ValidAge }

Days == 0..MaxDays

\* inputs of the caching client's runs
ClientModels == { Str(<<"m">>) }
ClientDiffs == { Str(<<"x">>), Cat(Pad, Str(<<"x">>)) }

\* inputs of the statistics runs
StatsDiffs == { Str(<<"x">>), Str(<<"y">>) }
StatsModels == { Str(<<"m">>), Str(<<"n">>) }
StatsTexts == { <<"o", "k">>, <<"l", "o", "n", "g">> }

\* inputs of the maintenance runs
MaintDiffs == { Str(<<"x">>) }
MaintTexts == { <<"o", "k">> }

----------------------------------------------------------------------------
(* Values *)

None == [none |-> TRUE]
Some(t) == [text |-> t]

EmptyMap == [k \in {} |-> None]

Upsert(f, k, v) == [x \in (DOMAIN f) \cup {k} |-> IF x = k THEN v ELSE f[x]]

Restrict(f, S) == [x \in S |-> f[x]]

Idle == [pc |-> "idle"]

\* another process changes the outputs directory while a cache_cli run is
\* between two of its steps
Disturbed == IF cli.pc = "idle" THEN cli ELSE [cli EXCEPT !.alone = FALSE]

NoOut == [op |-> "none"]

----------------------------------------------------------------------------
(* Files as Python reads and writes them *)

\* Path.write_text(message) on POSIX: "\n" is written as os.linesep = "\n",
\* every other character as it is.
write_text(message) == message

\* Path.read_text(): text mode with newline=None, so "\r\n" and a lone "\r"
\* are both returned as "\n".
RECURSIVE read_text(_)
read_text(content) ==
    IF content = <<>> THEN <<>>
    ELSE IF Head(content) = CR
         THEN <<LF>> \o read_text(IF Len(content) >= 2 /\ content[2] = LF
                                  THEN SubSeq(content, 3, Len(content))
                                  ELSE Tail(content))
         ELSE <<Head(content)>> \o read_text(Tail(content))

\* hashlib.sha256(...).hexdigest()[:16], taken as collision-free: the digest
\* of a content is represented by the content itself.
Digest(content) == content

\* ModelCache.get_cache_key: f"{model}:{diff[:500]}", digested
get_cache_key(diff, model) == Digest(Cat(Cat(model, Rep(":", 1)), Take(diff, PrefixLen)))

\* _load_metadata without the try/except around json.loads
_load_metadata_unguarded(file) == file.doc

\* ModelCache._load_metadata; a file that does not parse is in state
\* "corrupt" (its doc is what it held before it was damaged)
_load_metadata(file) == IF file.state = "ok" THEN file.doc ELSE EmptyMap

\* ModelCache._save_metadata
_save_metadata(md) == [state |-> "ok", doc |-> md]

\* ModelCache.get_cached_message
get_cached_message(diff, model) ==
    LET key == get_cache_key(diff, model)
    IN  IF key \in DOMAIN blobs
        THEN IF now - blobs[key].mtime < ValidAge
             THEN Some(read_text(blobs[key].content))
             ELSE None
        ELSE None

----------------------------------------------------------------------------
(* Operations of the store *)

\* ModelCache.get_cached_message called on the store
Get(diff, model) ==
    /\ out' = [op |-> "get", diff |-> diff, model |-> model,
               ret |-> get_cached_message(diff, model)]
    /\ UNCHANGED <<storeVars, clientVars, cli, now, writes>>
    /\ UNCHANGED daemonVars

\* ModelCache.save_message
save_message(diff, model, message) ==
    LET key == get_cache_key(diff, model)
        md  == Upsert(metadata, key,
                      [model |-> model, timestamp |-> now, diff_size |-> StrLen(diff)])
    IN  /\ blobs' = Upsert(blobs, key, [content |-> write_text(message), mtime |-> now])
        /\ metadata' = md
        /\ metaFile' = _save_metadata(md)

Put(diff, model, message) ==
    /\ writes < MaxWrites
    /\ writes' = writes + 1
    /\ save_message(diff, model, message)
    /\ out' = [op |-> "put", diff |-> diff, model |-> model, text |-> message]
    /\ cli' = Disturbed
    /\ UNCHANGED <<clientVars, now>>
    /\ UNCHANGED daemonVars

\* ModelCache.__init__: the long-lived store is opened again
Open ==
    /\ metadata' = _load_metadata(metaFile)
    /\ out' = [op |-> "open", opened |-> metaFile.state, raised |-> "none"]
    /\ UNCHANGED <<blobs, metaFile, clientVars, cli, now, writes>>
    /\ UNCHANGED daemonVars

\* cache_metadata.json is damaged (a torn or interleaved write): it exists
\* and does not parse as JSON
CorruptMetadata ==
    /\ metaFile.state # "corrupt"
    /\ metaFile' = [state |-> "corrupt", doc |-> metaFile.doc]
    /\ cli' = Disturbed
    /\ out' = NoOut
    /\ UNCHANGED <<blobs, metadata, clientVars, now, writes>>
    /\ UNCHANGED daemonVars

\* The clock advances
Tick(d) ==
    /\ now + d <= MaxNow
    /\ now' = now + d
    /\ out' = NoOut
    /\ UNCHANGED <<storeVars, clientVars, cli, writes>>
    /\ UNCHANGED daemonVars

----------------------------------------------------------------------------
(* The caching client *)

\* model_name.replace("/", "--")
RECURSIVE model_key(_)
model_key(name) ==
    IF name = << >> THEN << >>
    ELSE Cat(IF name[1].c = "/" THEN Rep("-", 2 * name[1].n) ELSE << name[1] >>,
             model_key(Tail(name)))

\* ModelCache.save_model_info
save_model_info(name) == Upsert(modelInfo, model_key(name), [loaded_at |-> now])

\* Python's truth value of an Optional[str]: None and "" are both false
Truthy(cached) == cached # None /\ cached.text # <<>>

\* CachedLLMClient.__init__ (with ModelCache.__init__)
NewClient(model) ==
    /\ metadata' = _load_metadata(metaFile)
    /\ model_name' = model
    /\ llm_client' = 0
    /\ engines' = 0
    /\ out' = NoOut
    /\ UNCHANGED <<blobs, metaFile, modelInfo, cli, now, writes>>
    /\ UNCHANGED daemonVars

\* CachedLLMClient._get_llm_client, when the engine's constructor returns
_get_llm_client ==
    IF llm_client = 0
    THEN /\ llm_client' = engines + 1
         /\ engines' = engines + 1
         /\ modelInfo' = save_model_info(model_name)
    ELSE UNCHANGED <<llm_client, engines, modelInfo>>

\* the message is saved first and the engine's failure raised afterwards
raise_after_save(diff) == \E message \in Texts : save_message(diff, model_name, message)

\* client.generate_commit_message(diff) raises: the statements after it,
\* save_message among them, are not reached
raise_before_save(diff) == UNCHANGED storeVars

\* what save_model_info can raise inside _get_llm_client: info_file.write_text
\* fails, or json.dumps meets a configuration value it cannot serialise
InfoFailures == {"OSError", "TypeError"}

GenerateOut(diff, cached, ret, called, raised) ==
    [op |-> "generate", diff |-> diff, cached |-> cached, ret |-> ret,
     built |-> (llm_client' # llm_client), called |-> called,
     engine |-> IF called THEN llm_client' ELSE 0, raised |-> raised]

\* CachedLLMClient.generate_commit_message. The engine's constructor raises
\* (second branch); it returns and engine.generate raises (third); it returns
\* and save_model_info raises, which leaves _get_llm_client with the engine
\* already assigned (fourth); all of it returns (fifth).
Generate(diff) ==
    LET cached == get_cached_message(diff, model_name)
    IN  \/ /\ Truthy(cached)
           /\ UNCHANGED <<storeVars, clientVars, cli, now, writes, daemonVars>>
           /\ out' = GenerateOut(diff, cached, Some(cached.text), FALSE, "none")
        \/ /\ ~Truthy(cached)
           /\ llm_client = 0
           /\ UNCHANGED <<storeVars, clientVars, cli, now, writes, daemonVars>>
           /\ out' = GenerateOut(diff, cached, None, FALSE, "EngineInitError")
        \/ /\ ~Truthy(cached)
           /\ _get_llm_client
           /\ raise_before_save(diff)
           /\ UNCHANGED <<model_name, cli, now, writes, daemonVars>>
           /\ out' = GenerateOut(diff, cached, None, TRUE, "GenerationError")
        \/ /\ ~Truthy(cached)
           /\ llm_client = 0
           /\ llm_client' = engines + 1
           /\ engines' = engines + 1
           /\ \E exception \in InfoFailures :
                 out' = GenerateOut(diff, cached, None, FALSE, exception)
           /\ UNCHANGED <<storeVars, model_name, modelInfo, cli, now, writes, daemonVars>>
        \/ /\ ~Truthy(cached)
           /\ writes < MaxWrites
           /\ writes' = writes + 1
           /\ _get_llm_client
           /\ \E message \in Texts :
                 /\ save_message(diff, model_name, message)
                 /\ out' = GenerateOut(diff, cached, Some(message), TRUE, "none")
           /\ cli' = Disturbed
           /\ UNCHANGED <<model_name, now, daemonVars>>

----------------------------------------------------------------------------
(* The maintenance CLI (cache_cli.main) and the processes around it *)

\* another process or the user removes outputs/<key>.txt
ExternalDelete(key) ==
    /\ key \in DOMAIN blobs
    /\ blobs' = Restrict(blobs, (DOMAIN blobs) \ {key})
    /\ cli' = Disturbed
    /\ out' = NoOut
    /\ UNCHANGED <<metaFile, metadata, clientVars, now, writes>>
    /\ UNCHANGED daemonVars

\* stat().st_size of a blob (its characters are one byte each)
st_size(key) == Len(blobs[key].content)

RECURSIVE SumSizes(_, _)
SumSizes(f, S) ==
    IF S = {} THEN 0
    ELSE LET k == CHOOSE x \in S : TRUE IN f[k] + SumSizes(f, S \ {k})

\* model_stats that records a model and never counts further
model_stats_uncounted(md) == [m \in { md[k].model : k \in DOMAIN md } |-> 1]

\* model_stats of ModelCache.get_cache_stats
model_stats(md) ==
    [m \in { md[k].model : k \in DOMAIN md } |->
        Cardinality({ k \in DOMAIN md : md[k].model = m })]

\* the files the running scan has listed and not yet visited
Pending == IF cli.pc \in {"stats_sum", "clear_scan", "clearall_scan"} THEN cli.pending ELSE {}

\* the process dies of an uncaught exception
CliRaise(op, exception) ==
    /\ cli' = Idle
    /\ out' = [op |-> op, raised |-> exception]

\* cache_cli stats: ModelCache(...), then get_cache_stats up to the first glob
CliStats ==
    /\ cli.pc = "idle"
    /\ cli' = [pc |-> "stats_glob", md |-> _load_metadata(metaFile),
               opened |-> metaFile.state,
               total_files |-> Cardinality(DOMAIN blobs), alone |-> TRUE,
               after |-> IF out.op = "clearall" THEN out ELSE NoOut]
    /\ out' = NoOut
    /\ UNCHANGED <<storeVars, clientVars, now, writes>>
    /\ UNCHANGED daemonVars

\* get_cache_stats: the second glob lists the directory
StatsGlob ==
    /\ cli.pc = "stats_glob"
    /\ cli' = [pc |-> "stats_sum", md |-> cli.md, opened |-> cli.opened,
               total_files |-> cli.total_files,
               pending |-> DOMAIN blobs, total_size |-> 0, alone |-> cli.alone,
               after |-> cli.after]
    /\ out' = NoOut
    /\ UNCHANGED <<storeVars, clientVars, now, writes>>
    /\ UNCHANGED daemonVars

\* get_cache_stats: f.stat().st_size of one listed file
StatsStat(key) ==
    /\ cli.pc = "stats_sum"
    /\ key \in cli.pending
    /\ \/ /\ key \in DOMAIN blobs
          /\ cli' = [cli EXCEPT !.pending = @ \ {key},
                                !.total_size = @ + st_size(key)]
          /\ out' = NoOut
       \/ /\ key \notin DOMAIN blobs
          /\ CliRaise("stats", "FileNotFoundError")
    /\ UNCHANGED <<storeVars, clientVars, now, writes>>
    /\ UNCHANGED daemonVars

\* get_cache_stats: the per-model counts and the result
StatsReturn ==
    /\ cli.pc = "stats_sum"
    /\ cli.pending = {}
    /\ cli' = Idle
    /\ out' = [op |-> "stats", raised |-> "none", alone |-> cli.alone,
               after |-> cli.after, opened |-> cli.opened,
               total_entries |-> cli.total_files,
               total_size_bytes |-> cli.total_size,
               models |-> model_stats(cli.md)]
    /\ UNCHANGED <<storeVars, clientVars, now, writes>>
    /\ UNCHANGED daemonVars

\* IsOld with the comparison made inclusive
IsOldInclusive(mtime, cutoff_time) == mtime <= cutoff_time

\* the file is older than the cutoff (clear_old_cache)
IsOld(mtime, cutoff_time) == mtime < cutoff_time

\* IsKept with the comparison made strict
IsKeptStrict(info, cutoff_time) == info.timestamp > cutoff_time

\* the record is kept (clear_old_cache); every record save_message writes
\* has a timestamp, so the default of info.get("timestamp", 0) is not used
IsKept(info, cutoff_time) == info.timestamp >= cutoff_time

\* cache_cli clear --days N: ModelCache(...), then clear_old_cache up to the glob
CliClear(days) ==
    /\ cli.pc = "idle"
    /\ cli' = [pc |-> "clear_scan", md |-> _load_metadata(metaFile),
               opened |-> metaFile.state, days |-> days,
               called_at |-> now, cutoff_time |-> now - days * SecondsPerDay,
               pending |-> DOMAIN blobs,
               found |-> [k \in DOMAIN blobs |-> blobs[k].mtime],
               deleted |-> {}, alone |-> TRUE]
    /\ out' = NoOut
    /\ UNCHANGED <<storeVars, clientVars, now, writes>>
    /\ UNCHANGED daemonVars

\* clear_old_cache: stat and, when old, unlink one listed file
ClearFile(key) ==
    /\ cli.pc = "clear_scan"
    /\ key \in cli.pending
    /\ \/ /\ key \in DOMAIN blobs
          /\ IsOld(blobs[key].mtime, cli.cutoff_time)
          /\ blobs' = Restrict(blobs, (DOMAIN blobs) \ {key})
          /\ cli' = [cli EXCEPT !.pending = @ \ {key}, !.deleted = @ \cup {key}]
          /\ out' = NoOut
       \/ /\ key \in DOMAIN blobs
          /\ ~IsOld(blobs[key].mtime, cli.cutoff_time)
          /\ cli' = [cli EXCEPT !.pending = @ \ {key}]
          /\ out' = NoOut
          /\ UNCHANGED blobs
       \/ /\ key \notin DOMAIN blobs
          /\ CliRaise("clear", "FileNotFoundError")
          /\ UNCHANGED blobs
    /\ UNCHANGED <<metaFile, metadata, clientVars, now, writes>>
    /\ UNCHANGED daemonVars

\* clear_old_cache: the metadata is rebuilt and saved
new_metadata(md, cutoff_time) ==
    Restrict(md, { k \in DOMAIN md : IsKept(md[k], cutoff_time) })

ClearFinish ==
    /\ cli.pc = "clear_scan"
    /\ cli.pending = {}
    /\ metaFile' = _save_metadata(new_metadata(cli.md, cli.cutoff_time))
    /\ cli' = Idle
    /\ out' = [op |-> "clear", raised |-> "none", alone |-> cli.alone,
               opened |-> cli.opened, days |-> cli.days, called_at |-> cli.called_at,
               cutoff_time |-> cli.cutoff_time,
               found |-> cli.found, deleted |-> cli.deleted, loaded |-> cli.md]
    /\ UNCHANGED <<blobs, metadata, clientVars, now, writes>>
    /\ UNCHANGED daemonVars

\* cache_cli clear --all: ModelCache(...), then the glob
CliClearAll ==
    /\ cli.pc = "idle"
    /\ cli' = [pc |-> "clearall_scan", md |-> _load_metadata(metaFile),
               pending |-> DOMAIN blobs, found |-> DOMAIN blobs, alone |-> TRUE]
    /\ out' = NoOut
    /\ UNCHANGED <<storeVars, clientVars, now, writes>>
    /\ UNCHANGED daemonVars

\* clear --all: unlink one listed file
ClearAllFile(key) ==
    /\ cli.pc = "clearall_scan"
    /\ key \in cli.pending
    /\ \/ /\ key \in DOMAIN blobs
          /\ blobs' = Restrict(blobs, (DOMAIN blobs) \ {key})
          /\ cli' = [cli EXCEPT !.pending = @ \ {key}]
          /\ out' = NoOut
       \/ /\ key \notin DOMAIN blobs
          /\ CliRaise("clearall", "FileNotFoundError")
          /\ UNCHANGED blobs
    /\ UNCHANGED <<metaFile, metadata, clientVars, now, writes>>
    /\ UNCHANGED daemonVars

\* clear --all with the reset of cache.metadata left out
uncleared_metadata(md) == md

\* clear --all: cache.metadata = {}
cleared_metadata(md) == EmptyMap

ClearAllFinish ==
    /\ cli.pc = "clearall_scan"
    /\ cli.pending = {}
    /\ metaFile' = _save_metadata(cleared_metadata(cli.md))
    /\ cli' = Idle
    /\ out' = [op |-> "clearall", raised |-> "none", alone |-> cli.alone,
               found |-> cli.found, loaded |-> cli.md]
    /\ UNCHANGED <<blobs, metadata, clientVars, now, writes>>
    /\ UNCHANGED daemonVars
----------------------------------------------------------------------------
(* The daemon (model_server.py): the wire format.  A text on the wire is a *)
(* sequence of characters; a key, a separator, a number and an escape      *)
(* sequence of JSON are one element each (none of them holds a newline).   *)

\* b"\n\n", the end marker of a request
Marker == <<LF, LF>>

\* sub in s
Contains(s, sub) ==
    \E i \in 1..(Len(s) - Len(sub) + 1) : SubSeq(s, i, i + Len(sub) - 1) = sub

Whitespace == {" ", LF, CR}

\* str.strip()
RECURSIVE lstrip(_)
lstrip(s) == IF s # <<>> /\ Head(s) \in Whitespace THEN lstrip(Tail(s)) ELSE s

RECURSIVE rstrip(_)
rstrip(s) ==
    IF s # <<>> /\ s[Len(s)] \in Whitespace THEN rstrip(SubSeq(s, 1, Len(s) - 1)) ELSE s

strip(s) == rstrip(lstrip(s))

\* the body of a JSON string as json.dumps writes it
RECURSIVE escape(_)
escape(s) ==
    IF s = <<>> THEN <<>>
    ELSE << CASE Head(s) = LF   -> "\\n"
              [] Head(s) = CR   -> "\\r"
              [] Head(s) = "\"" -> "\\\""
              [] Head(s) = "\\" -> "\\\\"
              [] OTHER          -> Head(s) >> \o escape(Tail(s))

\* a string between quotes with its characters left as they are
JStr_raw(s) == <<"\"">> \o s \o <<"\"">>

\* a str as json.dumps writes it
JStr(s) == <<"\"">> \o escape(s) \o <<"\"">>

\* json.dumps of the objects the daemon and its client exchange
json_dumps(v) ==
    IF "diff" \in DOMAIN v
    THEN <<"{", "\"diff\"", ": ">> \o JStr(v.diff) \o <<"}">>
    ELSE IF "message" \in DOMAIN v
    THEN <<"{", "\"message\"", ": ">> \o JStr(v.message)
         \o <<", ", "\"elapsed\"", ": ", ToString(v.elapsed), "}">>
    ELSE IF "error" \in DOMAIN v
    THEN <<"{", "\"error\"", ": ">> \o JStr(v.error) \o <<"}">>
    ELSE IF "files" \in DOMAIN v
    THEN <<"{", "\"files\"", ": ">> \o JStr(v.files) \o <<"}">>
    ELSE <<"{", "}">>

\* str(e) of an exception, a text without newline
str(exception) == << exception >>

\* inputs of the daemon's runs
DaemonDiffs == { <<"x">>, <<LF, LF>> }
EngineTexts == { <<"o", "k">>, <<"a", LF, "b">> }
GenTimes == { 0, 1 }
RawRequests == { <<"x", LF, LF>> }
RawPayloads == RawRequests \cup { <<"x">> }
LifeDiffs == { <<"x">> }
Exceptions == { "JSONDecodeError", "GenerationError", "BrokenPipeError" }
Signals == { "SIGINT", "SIGTERM" }
\* requests that are JSON objects without the field diff
SchemaRequests == { json_dumps([files |-> <<"x">>]) \o Marker }

\* the JSON documents of the model
JsonValues ==
    { [diff |-> d] : d \in DaemonDiffs }
    \cup { [message |-> m, elapsed |-> e] : m \in EngineTexts, e \in GenTimes }
    \cup { [error |-> str(e)] : e \in Exceptions }
    \cup { [files |-> <<"x">>] }

\* the serialisation of each document
JsonTexts == [v \in JsonValues |-> json_dumps(v)]

\* json.loads: the document the text is the serialisation of, when it is one
json_loads(text) ==
    IF \E v \in JsonValues : JsonTexts[v] = text
    THEN [ok |-> TRUE, value |-> CHOOSE v \in JsonValues : JsonTexts[v] = text]
    ELSE [ok |-> FALSE]

\* the prefixes of a sent text a receive loop can hold when it sees `mark`
Received(sent, mark) ==
    { SubSeq(sent, 1, i) : i \in { n \in 1..Len(sent) : Contains(SubSeq(sent, 1, n), mark) } }

----------------------------------------------------------------------------
(* The daemon process (ModelServer) *)

Pids == DOMAIN procs
Alive(pid) == pid \in Pids /\ procs[pid].alive
Daemons == { p \in Pids : procs[p].kind = "daemon" /\ procs[p].alive }

\* ModelServer.__init__ in a new process
NewDaemon ==
    [kind |-> "daemon", owner |-> "self", alive |-> TRUE, pc |-> "start",
     running |-> TRUE, handlers |-> FALSE, signalled |-> FALSE, listening |-> FALSE,
     queue |-> <<>>, handling |-> EmptyMap, caught |-> FALSE]

\* the process ends without running any cleanup
Ended(proc, how) ==
    [proc EXCEPT !.alive = FALSE, !.pc = how, !.listening = FALSE,
                 !.queue = <<>>, !.handling = EmptyMap]

\* the kernel closes every socket of a process that ends
ClosedByExit(proc) ==
    [c \in DOMAIN conns |->
        IF c \in DOMAIN proc.handling \/ (\E i \in 1..Len(proc.queue) : proc.queue[i] = c)
        THEN [conns[c] EXCEPT !.sclosed = TRUE]
        ELSE conns[c]]

\* llmcommit-server foreground: ModelServer(args.config), server.start(),
\* in the first process of the run
Foreground ==
    /\ Pids = {}
    /\ procs' = Upsert(procs, Cardinality(Pids) + 1, NewDaemon)
    /\ out' = NoOut
    /\ UNCHANGED <<cacheVars, now, sockFile, pidFile, conns, sup>>

\* start: remove an existing socket file
DaemonUnlink(pid) ==
    /\ Alive(pid)
    /\ procs[pid].pc = "start"
    /\ sockFile' = 0
    /\ procs' = [procs EXCEPT ![pid].pc = "load"]
    /\ out' = NoOut
    /\ UNCHANGED <<cacheVars, now, pidFile, conns, sup>>

\* start: LLMClient(self.config) returns, or raises and ends the process
DaemonLoad(pid) ==
    /\ Alive(pid)
    /\ procs[pid].pc = "load"
    /\ \/ procs' = [procs EXCEPT ![pid].pc = "bind"]
       \/ procs' = [procs EXCEPT ![pid] = Ended(@, "crashed")]
    /\ out' = NoOut
    /\ UNCHANGED <<cacheVars, now, sockFile, pidFile, conns, sup>>

\* start: socket(), bind(), listen(1); bind raises when the path exists
DaemonBind(pid) ==
    /\ Alive(pid)
    /\ procs[pid].pc = "bind"
    /\ \/ /\ sockFile = 0
          /\ sockFile' = pid
          /\ procs' = [procs EXCEPT ![pid].pc = "install", ![pid].listening = TRUE]
       \/ /\ sockFile # 0
          /\ procs' = [procs EXCEPT ![pid] = Ended(@, "crashed")]
          /\ UNCHANGED sockFile
    /\ out' = NoOut
    /\ UNCHANGED <<cacheVars, now, pidFile, conns, sup>>

\* start: signal.signal(SIGINT, ...), signal.signal(SIGTERM, ...)
DaemonInstall(pid) ==
    /\ Alive(pid)
    /\ procs[pid].pc = "install"
    /\ procs' = [procs EXCEPT ![pid].pc = "loop", ![pid].handlers = TRUE]
    /\ out' = NoOut
    /\ UNCHANGED <<cacheVars, now, sockFile, pidFile, conns, sup>>

\* start: while self.running
DaemonLoop(pid) ==
    /\ Alive(pid)
    /\ procs[pid].pc = "loop"
    /\ procs' = [procs EXCEPT ![pid].pc = IF procs[pid].running THEN "accept" ELSE "close"]
    /\ out' = NoOut
    /\ UNCHANGED <<cacheVars, now, sockFile, pidFile, conns, sup>>

\* server.accept() returns the newest connection of the listen queue
accept_newest(queue) == Len(queue)

\* server.accept() returns the oldest connection of the listen queue
accept(queue) == 1

\* the serve loop hands the connection to a thread and goes on
spawn_handle_request(conn) == "loop"

\* the serve loop calls self._handle_request(conn) and waits for its return
call_handle_request(conn) == "handle"

\* start: conn, _ = server.accept(); a signal whose handler returns does not
\* end the call, which is retried (PEP 475)
DaemonAccept(pid) ==
    /\ Alive(pid)
    /\ procs[pid].pc = "accept"
    /\ procs[pid].queue # <<>>
    /\ LET queue == procs[pid].queue
           i == accept(queue)
           c == queue[i]
       IN  /\ procs' = [procs EXCEPT
                  ![pid].queue = SubSeq(queue, 1, i - 1) \o SubSeq(queue, i + 1, Len(queue)),
                  ![pid].handling = Upsert(@, c, [pc |-> "recv"]),
                  ![pid].pc = call_handle_request(c)]
           /\ conns' = [conns EXCEPT ![c].accepted = TRUE]
    /\ out' = NoOut
    /\ UNCHANGED <<cacheVars, now, sockFile, pidFile, sup>>

\* _handle_request returns or raises: the connection is closed (finally)
\* and the serve loop goes on after the call
Returned(proc, c) ==
    [proc EXCEPT !.handling = Restrict(@, (DOMAIN @) \ {c}),
                 !.pc = IF @ = "handle" THEN "loop" ELSE @]

\* the peer can still be sent to
PeerOpen(c) == conns[c].cstate = "open"

\* _handle_request: the receive loop, json.loads and request.get("diff", "")
HandleRecv(pid, c) ==
    /\ Alive(pid)
    /\ c \in DOMAIN procs[pid].handling
    /\ procs[pid].handling[c].pc = "recv"
    /\ \E data \in Received(conns[c].payload, Marker)
                   \cup (IF PeerOpen(c) THEN {} ELSE {conns[c].payload}) :
          LET request == json_loads(strip(data))
          IN  IF request.ok
              THEN procs' = [procs EXCEPT ![pid].handling[c] =
                                [pc |-> "generate",
                                 diff |-> IF "diff" \in DOMAIN request.value
                                          THEN request.value.diff ELSE <<>>]]
              ELSE procs' = [procs EXCEPT ![pid].handling[c] =
                                [pc |-> "error", exception |-> "JSONDecodeError"]]
    /\ out' = NoOut
    /\ UNCHANGED <<cacheVars, now, sockFile, pidFile, conns, sup>>

\* _handle_request: start_time = time.time(); generate_commit_message is called
HandleGenerate(pid, c) ==
    /\ Alive(pid)
    /\ c \in DOMAIN procs[pid].handling
    /\ procs[pid].handling[c].pc = "generate"
    /\ procs' = [procs EXCEPT ![pid].handling[c] =
                    [pc |-> "generating", diff |-> @.diff, start_time |-> now]]
    /\ conns' = [conns EXCEPT ![c].asked = Some(procs[pid].handling[c].diff)]
    /\ out' = NoOut
    /\ UNCHANGED <<cacheVars, now, sockFile, pidFile, sup>>

\* _handle_request: generate_commit_message returns a message or raises;
\* elapsed = time.time() - start_time
HandleGenerated(pid, c) ==
    /\ Alive(pid)
    /\ c \in DOMAIN procs[pid].handling
    /\ procs[pid].handling[c].pc = "generating"
    /\ \E d \in GenTimes :
          /\ now + d <= MaxNow
          /\ now' = now + d
          /\ \/ \E message \in EngineTexts :
                   /\ procs' = [procs EXCEPT ![pid].handling[c] =
                                   [pc |-> "respond", message |-> message,
                                    elapsed |-> now' - @.start_time]]
                   /\ conns' = [conns EXCEPT ![c].engine = Some(message)]
             \/ /\ procs' = [procs EXCEPT ![pid].handling[c] =
                                [pc |-> "error", exception |-> "GenerationError"]]
                /\ conns' = [conns EXCEPT ![c].engine = [raised |-> "GenerationError"]]
    /\ out' = NoOut
    /\ UNCHANGED <<cacheVars, sockFile, pidFile, sup>>

\* the response to a generated message
response(message, elapsed) == [message |-> message, elapsed |-> elapsed]

\* the error response with the text under the key of a message
error_as_message(exception) == [message |-> str(exception), elapsed |-> 0]

\* the response to an exception
error_response(exception) == [error |-> str(exception)]

\* _handle_request: conn.send(json.dumps(response).encode() + b"\n"), then
\* finally conn.close(); a send to a closed peer raises BrokenPipeError,
\* which the except clause of _handle_request takes
HandleRespond(pid, c) ==
    /\ Alive(pid)
    /\ c \in DOMAIN procs[pid].handling
    /\ procs[pid].handling[c].pc = "respond"
    /\ LET h == procs[pid].handling[c]
       IN  IF PeerOpen(c)
           THEN /\ conns' = [conns EXCEPT
                       ![c].resp = @ \o json_dumps(response(h.message, h.elapsed)) \o <<LF>>,
                       ![c].sclosed = TRUE, ![c].handled = "message"]
                /\ procs' = [procs EXCEPT ![pid] = Returned(@, c)]
           ELSE /\ procs' = [procs EXCEPT ![pid].handling[c] =
                                [pc |-> "error", exception |-> "BrokenPipeError"]]
                /\ UNCHANGED conns
    /\ out' = NoOut
    /\ UNCHANGED <<cacheVars, now, sockFile, pidFile, sup>>

\* the except clause of the serve loop does not take the exception
loop_lets_through(exception) == FALSE

\* start: except Exception of the serve loop
loop_catches(exception) == exception \in Exceptions

\* _handle_request: except Exception: conn.send(error response), then
\* finally conn.close(); when this send raises, the exception leaves
\* _handle_request and reaches the serve loop
HandleError(pid, c) ==
    /\ Alive(pid)
    /\ c \in DOMAIN procs[pid].handling
    /\ procs[pid].handling[c].pc = "error"
    /\ LET h == procs[pid].handling[c]
       IN  IF PeerOpen(c)
           THEN /\ conns' = [conns EXCEPT
                       ![c].resp = @ \o json_dumps(error_response(h.exception)) \o <<LF>>,
                       ![c].sclosed = TRUE, ![c].handled = "error"]
                /\ procs' = [procs EXCEPT ![pid] = Returned(@, c)]
           ELSE IF loop_catches("BrokenPipeError")
           THEN /\ conns' = [conns EXCEPT ![c].sclosed = TRUE, ![c].handled = "failed"]
                /\ procs' = [procs EXCEPT ![pid] =
                                [Returned(@, c) EXCEPT !.caught = TRUE]]
           ELSE /\ conns' = ClosedByExit(procs[pid])
                /\ procs' = [procs EXCEPT ![pid] = Ended(@, "crashed")]
    /\ out' = NoOut
    /\ UNCHANGED <<cacheVars, now, sockFile, pidFile, sup>>

\* start, after the loop: server.close() and the removal of the socket file
DaemonClose(pid) ==
    /\ Alive(pid)
    /\ procs[pid].pc = "close"
    /\ conns' = ClosedByExit(procs[pid])
    /\ sockFile' = 0
    /\ procs' = [procs EXCEPT ![pid] = Ended(@, "stopped")]
    /\ out' = NoOut
    /\ UNCHANGED <<cacheVars, now, pidFile, sup>>

\* SIGINT or SIGTERM reaches the process: _shutdown when the handlers are
\* installed, else the default action, which ends the process at once
Signal(pid, sig) ==
    /\ Alive(pid)
    /\ procs[pid].kind = "daemon"
    /\ IF procs[pid].handlers
       THEN /\ procs' = [procs EXCEPT ![pid].running = FALSE, ![pid].signalled = TRUE]
            /\ UNCHANGED conns
       ELSE /\ conns' = ClosedByExit(procs[pid])
            /\ procs' = [procs EXCEPT ![pid] = [Ended(@, "killed") EXCEPT !.signalled = TRUE]]
    /\ out' = NoOut
    /\ UNCHANGED <<cacheVars, now, sockFile, pidFile, sup>>

----------------------------------------------------------------------------
(* The peers of the daemon *)

Listening(pid) == Alive(pid) /\ procs[pid].listening

\* the listen queue takes no further connection: connect() blocks
QueueFull(queue) == Len(queue) > Backlog

\* a connection to the listener of pid, with the request already sent
Connect(pid, kind, diff, payload) ==
    LET c == Cardinality(DOMAIN conns) + 1
    IN  /\ Cardinality(DOMAIN conns) < MaxConns
        /\ ~QueueFull(procs[pid].queue)
        /\ conns' = Upsert(conns, c,
              [to |-> pid, kind |-> kind, diff |-> diff, payload |-> payload,
               cstate |-> "open", cpc |-> "waiting", resp |-> <<>>, sclosed |-> FALSE,
               accepted |-> FALSE, late |-> procs[pid].signalled,
               behind |-> Len(procs[pid].queue), asked |-> None, engine |-> None,
               handled |-> "no"])
        /\ procs' = [procs EXCEPT ![pid].queue = Append(@, c)]

\* the liveness check answers yes whatever the file system holds
is_server_running_always == TRUE

\* ModelClient.is_server_running: os.path.exists(self.socket_path)
is_server_running == sockFile # 0

\* connect() succeeds on every existing path, listener or not
connect_unchecked(path) == IF path = 0 THEN "FileNotFoundError" ELSE "ok"

\* client.connect(self.socket_path) on an AF_UNIX stream socket
connect(path) ==
    IF path = 0 THEN "FileNotFoundError"
    ELSE IF ~Listening(path) THEN "ConnectionRefusedError"
    ELSE "ok"

\* ModelClient.generate_commit_message up to the send; attempts counts the
\* calls of connect() made before the call returned or raised
ClientCall(diff) ==
    /\ \/ /\ ~is_server_running
          /\ out' = [op |-> "client", diff |-> diff, raised |-> "DaemonNotRunning",
                     attempts |-> 0]
          /\ UNCHANGED <<procs, conns>>
       \/ /\ is_server_running
          /\ connect(sockFile) # "ok"
          /\ out' = [op |-> "client", diff |-> diff, raised |-> connect(sockFile),
                     attempts |-> 1]
          /\ UNCHANGED <<procs, conns>>
       \/ /\ is_server_running
          /\ connect(sockFile) = "ok"
          /\ Connect(sockFile, "client", Some(diff), json_dumps([diff |-> diff]) \o Marker)
          /\ out' = NoOut
    /\ UNCHANGED <<cacheVars, now, sockFile, pidFile, sup>>

\* the client never looks for an error field
has_error_never(reply) == FALSE

\* "error" in response
has_error(reply) == "error" \in DOMAIN reply

\* ModelClient.generate_commit_message from the receive loop on
ClientRecv(c) ==
    /\ conns[c].kind = "client"
    /\ conns[c].cpc = "waiting"
    /\ \E data \in Received(conns[c].resp, <<LF>>)
                   \cup (IF conns[c].sclosed THEN {conns[c].resp} ELSE {}) :
          LET reply == json_loads(strip(data))
          IN  out' = [op |-> "client", conn |-> c, diff |-> conns[c].diff.text,
                      raised |-> IF ~reply.ok THEN "JSONDecodeError"
                                 ELSE IF has_error(reply.value) THEN "Exception"
                                 ELSE IF "message" \notin DOMAIN reply.value THEN "KeyError"
                                 ELSE "none",
                      error |-> IF reply.ok /\ has_error(reply.value)
                                THEN Some(reply.value.error) ELSE None,
                      ret |-> IF reply.ok /\ ~has_error(reply.value)
                                          /\ "message" \in DOMAIN reply.value
                              THEN Some(reply.value.message) ELSE None]
    /\ conns' = [conns EXCEPT ![c].cstate = "closed", ![c].cpc = "done"]
    /\ UNCHANGED <<cacheVars, now, procs, sockFile, pidFile, sup>>

\* another program connects and sends a payload that is not a JSON document
RawConnect(payload) ==
    /\ sockFile # 0
    /\ Listening(sockFile)
    /\ Connect(sockFile, "raw", None, payload)
    /\ out' = NoOut
    /\ UNCHANGED <<cacheVars, now, sockFile, pidFile, sup>>

\* the peer closes its end (a raw peer after sending, a client that is
\* interrupted while it waits)
PeerClose(c) ==
    /\ conns[c].cstate = "open"
    /\ conns[c].cpc = "waiting"
    /\ conns' = [conns EXCEPT ![c].cstate = "closed", ![c].cpc = "gone"]
    /\ out' = NoOut
    /\ UNCHANGED <<cacheVars, now, procs, sockFile, pidFile, sup>>

----------------------------------------------------------------------------
(* The supervisor (start_server_daemon) *)

\* os.kill finds no process, whatever the pid
os_kill_finds_none(pid, sig) == "ProcessLookupError"

\* os.kill(pid, sig) with sig = 0: the probe
os_kill(pid, sig) ==
    IF ~Alive(pid) THEN "ProcessLookupError"
    ELSE IF procs[pid].owner # "self" THEN "PermissionError"
    ELSE "ok"

\* except OSError only
start_catches_oserror(exception) == exception \in {"ProcessLookupError", "PermissionError"}

\* except (OSError, ValueError) of start_server_daemon
start_catches(exception) ==
    exception \in {"ProcessLookupError", "PermissionError", "ValueError"}

\* int(pid_file.read_text()) and os.kill(pid, 0)
Probe(file) ==
    IF file.state = "garbage" THEN "ValueError" ELSE os_kill(file.pid, 0)

\* start_server_daemon: the check of the PID file
StartCheck ==
    /\ sup.pc = "idle"
    /\ IF pidFile.state = "absent"
       THEN /\ sup' = [pc |-> "fork", found |-> "absent"]
            /\ out' = [op |-> "start", stage |-> "check", before |-> pidFile,
                       probe |-> "absent", reported |-> "none", raised |-> "none"]
            /\ UNCHANGED pidFile
       ELSE IF Probe(pidFile) = "ok"
       THEN /\ out' = [op |-> "start", stage |-> "check", before |-> pidFile,
                       probe |-> "ok", reported |-> "already running", raised |-> "none"]
            /\ UNCHANGED <<sup, pidFile>>
       ELSE IF start_catches(Probe(pidFile))
       THEN /\ pidFile' = [state |-> "absent"]
            /\ sup' = [pc |-> "fork", found |-> Probe(pidFile)]
            /\ out' = [op |-> "start", stage |-> "check", before |-> pidFile,
                       probe |-> Probe(pidFile), reported |-> "none", raised |-> "none"]
       ELSE /\ out' = [op |-> "start", stage |-> "check", before |-> pidFile,
                       probe |-> Probe(pidFile), reported |-> "none",
                       raised |-> Probe(pidFile)]
            /\ UNCHANGED <<sup, pidFile>>
    /\ UNCHANGED <<cacheVars, now, procs, sockFile, conns>>

\* start_server_daemon: os.fork(); the child will run ModelServer().start()
StartFork ==
    /\ sup.pc = "fork"
    /\ Cardinality(Pids) < MaxProcs
    /\ LET child == Cardinality(Pids) + 1
       IN  /\ procs' = Upsert(procs, child, NewDaemon)
           /\ sup' = [pc |-> "write", found |-> sup.found, child |-> child]
           /\ out' = [op |-> "start", stage |-> "fork", child |-> child, raised |-> "none"]
    /\ UNCHANGED <<cacheVars, now, sockFile, pidFile, conns>>

\* start_server_daemon, parent: pid_file.write_text opens the file for
\* writing, which creates it empty; another process can read it before the
\* pid is written and the file closed
StartTruncate ==
    /\ sup.pc = "write"
    /\ pidFile' = [state |-> "garbage"]
    /\ sup' = [sup EXCEPT !.pc = "truncated"]
    /\ out' = NoOut
    /\ UNCHANGED <<cacheVars, now, procs, sockFile, conns>>

\* start_server_daemon, parent: pid_file.write_text(str(pid))
StartWrite ==
    /\ sup.pc \in {"write", "truncated"}
    /\ pidFile' = [state |-> "pid", pid |-> sup.child]
    /\ sup' = Idle
    /\ out' = [op |-> "start", stage |-> "write", child |-> sup.child,
               found |-> sup.found, reported |-> "started", raised |-> "none"]
    /\ UNCHANGED <<cacheVars, now, procs, sockFile, conns>>

\* start_server_daemon called by another process (a second `llmcommit-server
\* start`) that runs from its check to its write without being interrupted
StartAtOnce ==
    /\ IF pidFile.state # "absent" /\ Probe(pidFile) = "ok"
       THEN /\ out' = [op |-> "start", stage |-> "all", caller |-> 2, before |-> pidFile,
                       probe |-> "ok", reported |-> "already running", raised |-> "none"]
            /\ UNCHANGED <<procs, pidFile>>
       ELSE IF pidFile.state # "absent" /\ ~start_catches(Probe(pidFile))
       THEN /\ out' = [op |-> "start", stage |-> "all", caller |-> 2, before |-> pidFile,
                       probe |-> Probe(pidFile), reported |-> "none",
                       raised |-> Probe(pidFile)]
            /\ UNCHANGED <<procs, pidFile>>
       ELSE /\ Cardinality(Pids) < MaxProcs
            /\ LET child == Cardinality(Pids) + 1
               IN  /\ procs' = Upsert(procs, child, NewDaemon)
                   /\ pidFile' = [state |-> "pid", pid |-> child]
                   /\ out' = [op |-> "start", stage |-> "all", caller |-> 2,
                              before |-> pidFile, child |-> child,
                              probe |-> IF pidFile.state = "absent" THEN "absent"
                                        ELSE Probe(pidFile),
                              reported |-> "started", raised |-> "none"]
    /\ UNCHANGED <<cacheVars, now, sockFile, conns, sup>>

\* what SIGTERM does to the process it reaches: _shutdown in a daemon whose
\* handlers are installed, the end of the process otherwise
Signalled(proc) ==
    IF proc.handlers
    THEN [proc EXCEPT !.running = FALSE, !.signalled = TRUE]
    ELSE [Ended(proc, "killed") EXCEPT !.signalled = TRUE]

\* except Exception of stop_server_daemon
stop_catches(exception) ==
    exception \in {"ProcessLookupError", "PermissionError", "ValueError"}

\* int(pid_file.read_text()) and os.kill(pid, signal.SIGTERM)
Kill(file) ==
    IF file.state = "garbage" THEN "ValueError" ELSE os_kill(file.pid, "SIGTERM")

\* what a stop or status call leaves in out: the two files and the live
\* daemons as the call found them, what it printed, the pid it signalled
CtlOut(op, probe, reported, signalled, raised) ==
    [op |-> op, before |-> pidFile, sockBefore |-> sockFile, running |-> Daemons,
     probe |-> probe, reported |-> reported, signalled |-> signalled, raised |-> raised]

\* stop_server_daemon
Stop ==
    /\ IF pidFile.state = "absent"
       THEN /\ out' = CtlOut("stop", "absent", "not running", 0, "none")
            /\ UNCHANGED <<procs, conns, pidFile, sockFile>>
       ELSE IF Kill(pidFile) = "ok"
       THEN /\ procs' = [procs EXCEPT ![pidFile.pid] = Signalled(@)]
            /\ conns' = IF procs[pidFile.pid].handlers THEN conns
                        ELSE ClosedByExit(procs[pidFile.pid])
            /\ pidFile' = [state |-> "absent"]
            /\ sockFile' = 0
            /\ out' = CtlOut("stop", "ok", "stopped", pidFile.pid, "none")
       ELSE IF stop_catches(Kill(pidFile))
       THEN /\ out' = CtlOut("stop", Kill(pidFile), "error", 0, "none")
            /\ UNCHANGED <<procs, conns, pidFile, sockFile>>
       ELSE /\ out' = CtlOut("stop", Kill(pidFile), "none", 0, Kill(pidFile))
            /\ UNCHANGED <<procs, conns, pidFile, sockFile>>
    /\ UNCHANGED <<cacheVars, now, sup>>

\* status has no except clause at all
status_catches_none(exception) == FALSE

\* except OSError of main, command status
status_catches(exception) == exception \in {"ProcessLookupError", "PermissionError"}

\* main, command status
Status ==
    /\ IF pidFile.state = "absent"
       THEN out' = CtlOut("status", "absent", "not running", 0, "none")
       ELSE IF Probe(pidFile) = "ok"
       THEN out' = CtlOut("status", "ok", "running", 0, "none")
       ELSE IF status_catches(Probe(pidFile))
       THEN out' = CtlOut("status", Probe(pidFile), "stale", 0, "none")
       ELSE out' = CtlOut("status", Probe(pidFile), "none", 0, Probe(pidFile))
    /\ UNCHANGED <<cacheVars, now, procs, sockFile, pidFile, conns, sup>>

\* a process is killed (SIGKILL) or dies: no cleanup runs
ProcessDies(pid) ==
    /\ Alive(pid)
    /\ conns' = ClosedByExit(procs[pid])
    /\ procs' = [procs EXCEPT ![pid] = Ended(@, "killed")]
    /\ out' = NoOut
    /\ UNCHANGED <<cacheVars, now, sockFile, pidFile, sup>>

\* the pid of a process that has ended is given to a new process, of the
\* same user or of another one
PidReused(pid, owner) ==
    /\ pid \in Pids
    /\ ~Alive(pid)
    /\ procs' = [procs EXCEPT ![pid] = [NewDaemon EXCEPT !.kind = "other", !.owner = owner,
                                                         !.pc = "other"]]
    /\ out' = NoOut
    /\ UNCHANGED <<cacheVars, now, sockFile, pidFile, conns, sup>>

\* the PID file's content is damaged: it is not a decimal number
PidFileGarbled ==
    /\ pidFile.state = "pid"
    /\ pidFile' = [state |-> "garbage"]
    /\ out' = NoOut
    /\ UNCHANGED <<cacheVars, now, procs, sockFile, conns, sup>>

----------------------------------------------------------------------------
(* A second ModelCache instance on the same cache directory (another
   llmcommit process): it shares the blobs and cache_metadata.json with the
   first and holds its own self.metadata, read when it was constructed. *)

\* ModelCache.__init__ of the second instance
Open2 ==
    /\ ~store2.open
    /\ store2' = [open |-> TRUE, metadata |-> _load_metadata(metaFile)]
    /\ out' = [op |-> "open", store |-> 2, opened |-> metaFile.state, raised |-> "none"]
    /\ UNCHANGED <<cacheState, daemonState, now, run, configFile>>

\* ModelCache.save_message called on the second instance
Put2(diff, model, message) ==
    /\ store2.open
    /\ writes < MaxWrites
    /\ writes' = writes + 1
    /\ LET key == get_cache_key(diff, model)
           md  == Upsert(store2.metadata, key,
                         [model |-> model, timestamp |-> now, diff_size |-> StrLen(diff)])
       IN  /\ blobs' = Upsert(blobs, key, [content |-> write_text(message), mtime |-> now])
           /\ store2' = [store2 EXCEPT !.metadata = md]
           /\ metaFile' = _save_metadata(md)
    /\ out' = [op |-> "put", store |-> 2, diff |-> diff, model |-> model, text |-> message]
    /\ cli' = Disturbed
    /\ UNCHANGED <<metadata, clientVars, now, daemonState, run, configFile>>

----------------------------------------------------------------------------
(* git (GitHandler) and the llmcommit command (main.main) *)

\* what a git child process leaves: its exit status and its standard output
GitResults ==
    [returncode : {0, 1}, stdout : {<<>>, <<" ", LF>>, <<"d">>, <<LF, "d", " ">>}]

\* subprocess.run without check=True: no exit status raises
check_unchecked(result) == "none"

\* subprocess.run(..., check=True): a non-zero exit status raises
check(result) == IF result.returncode # 0 THEN "CalledProcessError" ELSE "none"

\* GitHandler.get_staged_diff and GitHandler.get_unstaged_diff, which differ
\* in the git command only
get_staged_diff(result) ==
    IF check(result) = "CalledProcessError" THEN None
    ELSE IF strip(result.stdout) # <<>> THEN Some(strip(result.stdout))
    ELSE None

\* except subprocess.CalledProcessError
git_catches(exception) == exception = "CalledProcessError"

\* what leaves a GitHandler method whose git child ended with result
GitRaised(result) ==
    IF check(result) # "none" /\ ~git_catches(check(result)) THEN check(result) ELSE "none"

\* GitHandler.commit, GitHandler.add_all
commit(result) == check(result) # "CalledProcessError"

\* the options of a run that decide what it calls
MainArgs == [dry_run : BOOLEAN, add_all : BOOLEAN, push : BOOLEAN, force_push : BOOLEAN]

MainTexts == {<<"m">>}

\* what the construction of the client or generate_commit_message can raise
MainFailures == {"EngineInitError", "GenerationError"}

\* sys.exit(code), or the return of main (code 0)
Exited(code) == [run EXCEPT !.pc = "exited", !.code = code]

\* the run has called op, which returned ok
Called(r, op, ok) == [r EXCEPT !.calls = Append(@, [op |-> op, ok |-> ok])]

\* main: argparse, load_config, GitHandler()
MainStart(args) ==
    /\ run.pc \in {"idle", "exited"}
    /\ run' = [pc |-> "stage", args |-> args, calls |-> <<>>, code |-> 0,
               diff |-> None, message |-> None]
    /\ out' = NoOut
    /\ UNCHANGED <<cacheState, daemonState, now, store2, configFile>>

\* main: git_handler.add_all() when --add-all was given
MainAddAll(result) ==
    /\ run.pc = "stage"
    /\ IF ~run.args.add_all
       THEN run' = [run EXCEPT !.pc = "staged"]
       ELSE IF commit(result)
       THEN run' = [Called(run, "add_all", TRUE) EXCEPT !.pc = "staged"]
       ELSE run' = [Called(Exited(1), "add_all", FALSE) EXCEPT !.pc = "exited"]
    /\ out' = NoOut
    /\ UNCHANGED <<cacheState, daemonState, now, store2, configFile>>

\* main: diff = git_handler.get_staged_diff()
MainStaged(result) ==
    /\ run.pc = "staged"
    /\ LET diff == get_staged_diff(result)
       IN  /\ run' = [Called(run, "get_staged_diff", diff # None) EXCEPT
                         !.pc = IF diff # None THEN "generate" ELSE "unstaged",
                         !.diff = diff]
           /\ out' = [op |-> "get_staged_diff", result |-> result, ret |-> diff,
                      raised |-> GitRaised(result)]
    /\ UNCHANGED <<cacheState, daemonState, now, store2, configFile>>

\* main: no staged diff, unstaged_diff = git_handler.get_unstaged_diff()
MainUnstaged(result) ==
    /\ run.pc = "unstaged"
    /\ LET unstaged_diff == get_staged_diff(result)
           r == Called(run, "get_unstaged_diff", unstaged_diff # None)
       IN  IF unstaged_diff # None /\ ~run.args.add_all
           THEN run' = [r EXCEPT !.pc = "exited", !.code = 1]
           ELSE IF unstaged_diff = None
           THEN run' = [r EXCEPT !.pc = "exited", !.code = 1]
           ELSE run' = [r EXCEPT !.pc = "generate", !.diff = unstaged_diff]
    /\ out' = NoOut
    /\ UNCHANGED <<cacheState, daemonState, now, store2, configFile>>

\* main: the client is built and llm_client.generate_commit_message(diff)
\* is called; except Exception prints the error and exits with 1
MainGenerate ==
    /\ run.pc = "generate"
    /\ \/ \E message \in MainTexts :
             run' = [Called(run, "generate", TRUE) EXCEPT
                        !.pc = "commit", !.message = Some(message)]
       \/ \E exception \in MainFailures :
             run' = [Called(run, "generate", FALSE) EXCEPT !.pc = "exited", !.code = 1]
    /\ out' = NoOut
    /\ UNCHANGED <<cacheState, daemonState, now, store2, configFile>>

\* --dry-run prints the message and commits all the same
commits_in(args) == TRUE

\* main: if args.dry_run ... else git_handler.commit(...)
commits(args) == ~args.dry_run

\* main: the message is printed (dry run) or committed
MainCommit(result) ==
    /\ run.pc = "commit"
    /\ IF ~commits(run.args)
       THEN /\ run' = Exited(0)
            /\ out' = NoOut
       ELSE /\ out' = [op |-> "commit", result |-> result, ret |-> commit(result),
                       raised |-> GitRaised(result)]
            /\ IF ~commit(result)
               THEN run' = [Called(run, "commit", FALSE) EXCEPT
                               !.pc = "exited", !.code = 1]
               ELSE IF run.args.push \/ run.args.force_push
               THEN run' = [Called(run, "commit", TRUE) EXCEPT !.pc = "push"]
               ELSE run' = [Called(run, "commit", TRUE) EXCEPT !.pc = "exited", !.code = 0]
    /\ UNCHANGED <<cacheState, daemonState, now, store2, configFile>>

\* main: push_success = git_handler.push(force=args.force_push)
MainPush(push_success) ==
    /\ run.pc = "push"
    /\ run' = [Called(run, "push", push_success) EXCEPT
                  !.pc = "exited", !.code = IF push_success THEN 0 ELSE 1]
    /\ out' = NoOut
    /\ UNCHANGED <<cacheState, daemonState, now, store2, configFile>>

----------------------------------------------------------------------------
(* The configuration (config.load_config, config.save_config).  A
   configuration is a record; long strings of the source are abbreviated and
   the temperature is held in tenths. *)

\* config.DEFAULT_CONFIG
DEFAULT_CONFIG ==
    [model |-> <<"d","i","s","t","i","l","g","p","t","2">>, max_tokens |-> 10,
     temperature |-> 1, prompt_template |-> <<"g","i","t",LF>>,
     cache_dir |-> <<"/","t","m","p","/","c">>, use_onnx |-> FALSE, use_fast |-> TRUE]

\* the home directory of the user
Home == <<"/","h">>

\* the configurations written to the file: every choice of a value, or of
\* no value, for five keys, one of them unknown to DEFAULT_CONFIG
Choices(key, values) == {EmptyMap} \cup { [k \in {key} |-> v] : v \in values }

Merge(a, b) == [k \in (DOMAIN a) \cup (DOMAIN b) |-> IF k \in DOMAIN b THEN b[k] ELSE a[k]]

UserConfigs ==
    { Merge(Merge(Merge(Merge(a, b), c), d), e) :
        a \in Choices("model", {<<"t">>}),
        b \in Choices("max_tokens", {100, 200}),
        c \in Choices("cache_dir", {<<"/","c">>, <<"~","/","c">>}),
        d \in Choices("use_fast", {FALSE}),
        e \in Choices("extra", {<<"a",LF>>}) }

\* the keys in the order json.dump writes them here
KeyOrder == <<"model", "max_tokens", "temperature", "prompt_template", "cache_dir",
              "use_onnx", "use_fast", "extra">>

\* json.dump of one value: a string, a number or a boolean
JValue(v, key) ==
    IF key \in {"model", "prompt_template", "cache_dir", "extra"} THEN JStr(v)
    ELSE IF key \in {"use_onnx", "use_fast"} THEN << IF v THEN "true" ELSE "false" >>
    ELSE << ToString(v) >>

\* json.dump(config, f, indent=2, ensure_ascii=False): the members, one a line
RECURSIVE DumpFrom(_, _)
DumpFrom(config, i) ==
    IF i > Len(KeyOrder) THEN <<>>
    ELSE (IF KeyOrder[i] \in DOMAIN config
          THEN <<LF, "  ", KeyOrder[i], ": ">> \o JValue(config[KeyOrder[i]], KeyOrder[i]) \o <<",">>
          ELSE <<>>) \o DumpFrom(config, i + 1)

json_dump(config) == <<"{">> \o DumpFrom(config, 1) \o <<LF, "}">>

\* the text of each configuration
ConfigTexts == [c \in UserConfigs |-> json_dump(c)]

\* json.load(f): the configuration the text is the serialisation of
json_load(text) == CHOOSE c \in UserConfigs : ConfigTexts[c] = text

\* dict.update that only adds the keys the configuration lacks
update_missing(config, user_config) == Merge(user_config, config)

\* config.update(user_config)
update(config, user_config) == Merge(config, user_config)

\* os.path.expanduser for a path that is "~" or begins with "~/"
expanduser(path) ==
    IF path # <<>> /\ Head(path) = "~" /\ (Len(path) = 1 \/ path[2] = "/")
    THEN Home \o Tail(path)
    ELSE path

\* load_config(config_path) with a path given
load_config(file) ==
    LET config == IF file.state = "absent" THEN DEFAULT_CONFIG
                  ELSE update(DEFAULT_CONFIG, json_load(file.text))
    IN  [config EXCEPT !.cache_dir = expanduser(@)]

\* save_config(config, config_path); saved remembers what was written
SaveConfig(config) ==
    /\ configFile' = [state |-> "ok", text |-> json_dump(config), saved |-> config]
    /\ out' = [op |-> "save_config", config |-> config]
    /\ UNCHANGED <<cacheState, daemonState, now, run, store2>>

\* load_config(config_path)
LoadConfig ==
    /\ out' = [op |-> "load_config", file |-> configFile, ret |-> load_config(configFile)]
    /\ UNCHANGED <<cacheState, daemonState, now, run, store2, configFile>>

\* the configuration file is removed
DeleteConfig ==
    /\ configFile.state # "absent"
    /\ configFile' = [state |-> "absent"]
    /\ out' = NoOut
    /\ UNCHANGED <<cacheState, daemonState, now, run, store2>>


Init ==
    /\ blobs = EmptyMap
    /\ metaFile = [state |-> "missing", doc |-> EmptyMap]
    /\ metadata = EmptyMap
    /\ now = 0
    /\ modelInfo = EmptyMap
    /\ model_name = Str(<<"m">>)
    /\ llm_client = 0
    /\ engines = 0
    /\ cli = Idle
    /\ writes = 0
    /\ out = NoOut
    /\ procs = EmptyMap
    /\ sockFile = 0
    /\ pidFile = [state |-> "absent"]
    /\ conns = EmptyMap
    /\ sup = Idle
    /\ run = Idle
    /\ store2 = [open |-> FALSE]
    /\ configFile = [state |-> "absent"]

NextStore ==
    \/ \E d \in Diffs, m \in Models : Get(d, m)
    \/ \E d \in Diffs, m \in Models, t \in Texts : Put(d, m, t)
    \/ \E d \in Deltas : Tick(d)

SpecStore == Init /\ [][NextStore]_vars

NextClient ==
    \/ \E m \in ClientModels : NewClient(m)
    \/ \E d \in ClientDiffs : Generate(d)
    \/ \E d \in Deltas : Tick(d)

SpecClient == Init /\ [][NextClient]_vars

NextMaint ==
    \/ \E d \in MaintDiffs, m \in Models, t \in MaintTexts : Put(d, m, t)
    \/ \E d \in Deltas : Tick(d)
    \/ \E k \in DOMAIN blobs : ExternalDelete(k)
    \/ CliStats
    \/ StatsGlob
    \/ \E k \in Pending : StatsStat(k)
    \/ StatsReturn
    \/ \E days \in Days : CliClear(days)
    \/ \E k \in Pending : ClearFile(k)
    \/ ClearFinish
    \/ CliClearAll
    \/ \E k \in Pending : ClearAllFile(k)
    \/ ClearAllFinish

SpecMaint == Init /\ [][NextMaint]_vars

NextMeta ==
    \/ \E d \in MaintDiffs, m \in Models, t \in MaintTexts : Put(d, m, t)
    \/ \E d \in Deltas : Tick(d)
    \/ CorruptMetadata
    \/ Open
    \/ CliStats
    \/ StatsGlob
    \/ \E k \in Pending : StatsStat(k)
    \/ StatsReturn
    \/ \E days \in Days : CliClear(days)
    \/ \E k \in Pending : ClearFile(k)
    \/ ClearFinish

SpecMeta == Init /\ [][NextMeta]_vars

NextStats ==
    \/ \E d \in StatsDiffs, m \in StatsModels, t \in StatsTexts : Put(d, m, t)
    \/ \E k \in DOMAIN blobs : ExternalDelete(k)
    \/ CorruptMetadata
    \/ Open
    \/ CliStats
    \/ StatsGlob
    \/ \E k \in Pending : StatsStat(k)
    \/ StatsReturn

SpecStats == Init /\ [][NextStats]_vars

NextDaemon ==
    \/ Foreground
    \/ \E p \in Pids : DaemonUnlink(p)
    \/ \E p \in Pids : DaemonLoad(p)
    \/ \E p \in Pids : DaemonBind(p)
    \/ \E p \in Pids : DaemonInstall(p)
    \/ \E p \in Pids : DaemonLoop(p)
    \/ \E p \in Pids : DaemonAccept(p)
    \/ \E p \in Pids, c \in DOMAIN conns : HandleRecv(p, c)
    \/ \E p \in Pids, c \in DOMAIN conns : HandleGenerate(p, c)
    \/ \E p \in Pids, c \in DOMAIN conns : HandleGenerated(p, c)
    \/ \E p \in Pids, c \in DOMAIN conns : HandleRespond(p, c)
    \/ \E p \in Pids, c \in DOMAIN conns : HandleError(p, c)
    \/ \E d \in DaemonDiffs : ClientCall(d)
    \/ \E c \in DOMAIN conns : ClientRecv(c)
    \/ \E payload \in RawRequests : RawConnect(payload)

SpecDaemon == Init /\ [][NextDaemon]_vars

\* the daemon with clients and with peers whose request has no diff
NextSchema ==
    \/ Foreground
    \/ \E p \in Pids : DaemonUnlink(p)
    \/ \E p \in Pids : DaemonLoad(p)
    \/ \E p \in Pids : DaemonBind(p)
    \/ \E p \in Pids : DaemonInstall(p)
    \/ \E p \in Pids : DaemonLoop(p)
    \/ \E p \in Pids : DaemonAccept(p)
    \/ \E p \in Pids, c \in DOMAIN conns : HandleRecv(p, c)
    \/ \E p \in Pids, c \in DOMAIN conns : HandleGenerate(p, c)
    \/ \E p \in Pids, c \in DOMAIN conns : HandleGenerated(p, c)
    \/ \E p \in Pids, c \in DOMAIN conns : HandleRespond(p, c)
    \/ \E p \in Pids, c \in DOMAIN conns : HandleError(p, c)
    \/ \E d \in LifeDiffs : ClientCall(d)
    \/ \E c \in DOMAIN conns : ClientRecv(c)
    \/ \E payload \in SchemaRequests : RawConnect(payload)

SpecSchema == Init /\ [][NextSchema]_vars

NextLife ==
    \/ Foreground
    \/ \E p \in Pids : DaemonUnlink(p)
    \/ \E p \in Pids : DaemonLoad(p)
    \/ \E p \in Pids : DaemonBind(p)
    \/ \E p \in Pids : DaemonInstall(p)
    \/ \E p \in Pids : DaemonLoop(p)
    \/ \E p \in Pids : DaemonAccept(p)
    \/ \E p \in Pids, c \in DOMAIN conns : HandleRecv(p, c)
    \/ \E p \in Pids, c \in DOMAIN conns : HandleGenerate(p, c)
    \/ \E p \in Pids, c \in DOMAIN conns : HandleGenerated(p, c)
    \/ \E p \in Pids, c \in DOMAIN conns : HandleRespond(p, c)
    \/ \E p \in Pids, c \in DOMAIN conns : HandleError(p, c)
    \/ \E p \in Pids : DaemonClose(p)
    \/ \E p \in Pids, sig \in Signals : Signal(p, sig)
    \/ \E d \in LifeDiffs : ClientCall(d)
    \/ \E payload \in RawPayloads : RawConnect(payload)
    \/ \E c \in DOMAIN conns : PeerClose(c)

SpecLife == Init /\ [][NextLife]_vars

NextSup ==
    \/ StartCheck
    \/ StartFork
    \/ StartWrite
    \/ \E p \in Pids : ProcessDies(p)
    \/ \E p \in Pids, owner \in {"self", "other"} : PidReused(p, owner)
    \/ PidFileGarbled

SpecSup == Init /\ [][NextSup]_vars

\* start, stop and status, with processes that die and pids that are reused
NextAdmin ==
    \/ StartCheck
    \/ StartFork
    \/ StartTruncate
    \/ StartWrite
    \/ Stop
    \/ Status
    \/ \E p \in Pids : ProcessDies(p)
    \/ \E p \in Pids, owner \in {"self", "other"} : PidReused(p, owner)
    \/ PidFileGarbled

SpecAdmin == Init /\ [][NextAdmin]_vars

\* start, stop and status around the daemons that start launches
NextCtl ==
    \/ StartCheck
    \/ StartFork
    \/ StartWrite
    \/ Stop
    \/ Status
    \/ \E p \in Pids : DaemonUnlink(p)
    \/ \E p \in Pids : DaemonLoad(p)
    \/ \E p \in Pids : DaemonBind(p)
    \/ \E p \in Pids : DaemonInstall(p)
    \/ \E p \in Pids : DaemonLoop(p)
    \/ \E p \in Pids : DaemonAccept(p)
    \/ \E p \in Pids, c \in DOMAIN conns : HandleRecv(p, c)
    \/ \E p \in Pids, c \in DOMAIN conns : HandleGenerate(p, c)
    \/ \E p \in Pids, c \in DOMAIN conns : HandleGenerated(p, c)
    \/ \E p \in Pids, c \in DOMAIN conns : HandleRespond(p, c)
    \/ \E p \in Pids, c \in DOMAIN conns : HandleError(p, c)
    \/ \E p \in Pids : DaemonClose(p)
    \/ \E p \in Pids, sig \in Signals : Signal(p, sig)
    \/ \E d \in LifeDiffs : ClientCall(d)

SpecCtl == Init /\ [][NextCtl]_vars

----------------------------------------------------------------------------
(* The claims.  In `out`, a field that ends a cache_cli run carries what   *)
(* the run saw: found (the blobs listed, with their mtimes at the call),   *)
(* loaded (the metadata the run loaded), deleted (the blobs it unlinked)   *)
(* and alone (no other process changed the outputs directory meanwhile).   *)

\* C1 (as claimed): a get that finds the blob of the last put to its key
\* returns exactly the text that was put (the blob's content, which
\* write_text stored unchanged) when the blob's age is below 24h, and absent
\* when the age is 24h or more.
C1_GetReturnsPutText ==
    out.op = "get" =>
        LET key == get_cache_key(out.diff, out.model)
        IN  key \in DOMAIN blobs =>
                out.ret = IF now - blobs[key].mtime < ValidAge
                          THEN Some(blobs[key].content)
                          ELSE None

\* C2 (as claimed): whenever the store's lookup at the start of generate
\* returned a text, whatever its content, generate returns that text, does
\* not construct the engine and does not call engine.generate.
C2_HitSkipsEngine ==
    (out.op = "generate" /\ out.cached # None) =>
        /\ out.ret = out.cached
        /\ ~out.built
        /\ ~out.called

\* C3 (as claimed): when a generate that missed and stored the engine's
\* text t is followed at once (same client, same model, same time) by a
\* generate for the same diff, the second call returns t and does not call
\* engine.generate.
C3_NoRegeneration ==
    [][ ( /\ out.op = "generate"
          /\ out.called
          /\ out.raised = "none"
          /\ out'.op = "generate"
          /\ out'.diff = out.diff
          /\ model_name' = model_name
          /\ now' = now )
        => ( out'.ret = out.ret /\ ~out'.called ) ]_vars

\* C4 (as claimed): a client instance constructs an engine only when it holds
\* none and has constructed none (at most once), only in a generate call
\* whose store lookup returned absent (never in a call that hits), and
\* every engine.generate call uses that first engine.
C4_EngineOnceAtFirstMiss ==
    [][ /\ ( engines' > engines =>
                /\ engines = 0
                /\ llm_client = 0
                /\ out'.op = "generate"
                /\ out'.cached = None )
        /\ ( (out'.op = "generate" /\ out'.called) => out'.engine = 1 ) ]_vars

\* C5 (as claimed): two different diffs that agree on their first 500
\* characters have, under every model, the same key, and a get for one of
\* them returns the text that was put for the other (the content of the blob
\* under that key) while the blob is younger than 24h.
C5_SamePrefixSameResult ==
    out.op = "get" =>
        \A other \in Diffs \ {out.diff} :
            Take(other, PrefixLen) = Take(out.diff, PrefixLen) =>
                LET key == get_cache_key(other, out.model)
                IN  /\ key = get_cache_key(out.diff, out.model)
                    /\ (key \in DOMAIN blobs /\ now - blobs[key].mtime < ValidAge)
                          => out.ret = Some(blobs[key].content)

\* C6 (as claimed): when the first put into an empty cache is followed at
\* once by a get, the get hits only if it asks for the model and the
\* 500-character diff prefix of that put: a pair that differs in either has
\* another key, and a put under one model gives no hit under another.
C6_KeyIdentifiesPair ==
    [][ ( /\ out.op = "put"
          /\ writes = 1
          /\ out'.op = "get"
          /\ out'.ret # None )
        => ( /\ out'.model = out.model
             /\ Take(out'.diff, PrefixLen) = Take(out.diff, PrefixLen) ) ]_vars

\* the age, at the time of the call, of a blob the clear run listed
AgeAtCall(key) == out.called_at - out.found[key]

\* C7 (as claimed): a clearOlderThan(days) that ran alone to its end has deleted exactly
\* the listed blobs whose age at the call was at least days*24h.
C7_DeletesAtLeastDays ==
    (out.op = "clear" /\ out.raised = "none" /\ out.alone) =>
        out.deleted = { k \in DOMAIN out.found : AgeAtCall(k) >= out.days * SecondsPerDay }

\* C7 (amended): a clearOlderThan(days) that ran alone has deleted exactly
\* the listed blobs whose age at the call was greater than days*24h; a blob
\* aged exactly days*24h or less is still on disk, unchanged.
C7_DeletesOlderThanDays ==
    (out.op = "clear" /\ out.raised = "none" /\ out.alone) =>
        /\ out.deleted = { k \in DOMAIN out.found : AgeAtCall(k) > out.days * SecondsPerDay }
        /\ DOMAIN blobs = (DOMAIN out.found) \ out.deleted
        /\ \A k \in DOMAIN blobs : blobs[k].mtime = out.found[k]

\* C7 (witness): a run with days = 1 deleted a blob and left one whose age
\* was exactly 24h.
C7_Witness ==
    /\ out.op = "clear"
    /\ out.raised = "none"
    /\ out.alone
    /\ out.days = 1
    /\ out.deleted # {}
    /\ \E k \in DOMAIN blobs : k \in DOMAIN out.found /\ AgeAtCall(k) = SecondsPerDay

\* C8 (as claimed): after a clearOlderThan that ran alone, the persisted
\* metadata holds exactly the records of the blobs that remain on disk.
C8_MetadataMatchesBlobs ==
    (out.op = "clear" /\ out.raised = "none" /\ out.alone) =>
        /\ metaFile.state = "ok"
        /\ DOMAIN metaFile.doc = DOMAIN blobs

\* every listed blob has a loaded record and every loaded record a listed
\* blob, the two timestamps on the same side of the cutoff
SameSides ==
    /\ DOMAIN out.found = DOMAIN out.loaded
    /\ \A k \in DOMAIN out.found :
          (out.found[k] < out.cutoff_time) <=> (out.loaded[k].timestamp < out.cutoff_time)

\* C8 (amended): after clearOlderThan(days) the persisted metadata holds
\* exactly the records the store had loaded whose storedAt is at or after the
\* cutoff (call time - days*24h), whether or not their blobs exist; when the
\* run was alone and blobs and records matched before it, these are exactly
\* the records of the blobs that remain.
C8_MetadataKeepsYoungRecords ==
    (out.op = "clear" /\ out.raised = "none") =>
        /\ metaFile.state = "ok"
        /\ DOMAIN metaFile.doc =
              { k \in DOMAIN out.loaded :
                    out.loaded[k].timestamp >= out.called_at - out.days * SecondsPerDay }
        /\ \A k \in DOMAIN metaFile.doc : metaFile.doc[k] = out.loaded[k]
        /\ (out.alone /\ SameSides) => DOMAIN metaFile.doc = DOMAIN blobs

\* C8 (witness): a run that deleted a blob and dropped its record kept the
\* record of a blob that was already missing.
C8_Witness ==
    /\ out.op = "clear"
    /\ out.raised = "none"
    /\ out.alone
    /\ out.deleted # {}
    /\ out.deleted \cap DOMAIN out.loaded # {}
    /\ \E k \in DOMAIN metaFile.doc : k \notin DOMAIN blobs

\* C9: after a clearAll() that ran alone no blob is left, the persisted
\* metadata is the empty mapping and every get returns absent; a stats()
\* that starts right after it and runs alone reports zero entries, zero
\* total size and an empty per-model count.
C9_ClearAllThenStats ==
    /\ (out.op = "clearall" /\ out.raised = "none" /\ out.alone) =>
          /\ blobs = EmptyMap
          /\ metaFile = _save_metadata(EmptyMap)
          /\ \A d \in Diffs, m \in Models : get_cached_message(d, m) = None
    /\ ( /\ out.op = "stats"
         /\ out.raised = "none"
         /\ out.alone
         /\ out.after.op = "clearall"
         /\ out.after.raised = "none"
         /\ out.after.alone ) =>
          /\ out.total_entries = 0
          /\ out.total_size_bytes = 0
          /\ out.models = EmptyMap

\* C9 (witness): stats ran right after a clearAll that had found a blob with
\* a record and a blob without one.
C9_Witness ==
    /\ out.op = "stats"
    /\ out.raised = "none"
    /\ out.alone
    /\ out.after.op = "clearall"
    /\ out.after.raised = "none"
    /\ out.after.alone
    /\ \E k \in out.after.found : k \in DOMAIN out.after.loaded
    /\ \E k \in out.after.found : k \notin DOMAIN out.after.loaded

\* C10 (as claimed): no put, stats, clearOlderThan or clearAll ends with an
\* exception, whatever the metadata and the blobs on disk are and whatever
\* another process deletes meanwhile.
C10_NoOperationRaises ==
    "raised" \in DOMAIN out => out.raised = "none"

\* the record save_message writes for the put that `out` describes
PutRecord(o, at) == [model |-> o.model, timestamp |-> at, diff_size |-> StrLen(o.diff)]

\* C11 (amended): opening the store on a metadata file that does not parse
\* yields the empty mapping without raising; a put that follows persists a
\* well-formed mapping holding just the new record; a clearOlderThan run
\* opened on such a file loads the empty mapping and persists the empty
\* mapping; a stats run opened on such a file reports an empty per-model
\* count and writes nothing, so the file stays unparsable.
C11_CorruptMetadataDegrades ==
    [][ /\ (out'.op = "open" /\ out'.opened = "corrupt") =>
              /\ out'.raised = "none"
              /\ metadata' = EmptyMap
        /\ (out.op = "open" /\ out.opened = "corrupt" /\ out'.op = "put") =>
              metaFile' = _save_metadata(
                  Upsert(EmptyMap, get_cache_key(out'.diff, out'.model), PutRecord(out', now)))
        /\ (out'.op = "clear" /\ out'.raised = "none" /\ out'.opened = "corrupt") =>
              /\ out'.loaded = EmptyMap
              /\ metaFile' = _save_metadata(EmptyMap)
        /\ (out'.op = "stats" /\ out'.raised = "none" /\ out'.opened = "corrupt") =>
              /\ out'.models = EmptyMap
              /\ metaFile' = metaFile ]_vars

\* C11 (as claimed): as above, but a stats run opened on a metadata file
\* that does not parse also leaves a well-formed metadata file behind.
C11_EveryOperationRepairs ==
    [][ /\ (out.op = "open" /\ out.opened = "corrupt" /\ out'.op = "put") =>
              metaFile'.state = "ok"
        /\ ( /\ out'.op \in {"clear", "stats"}
             /\ out'.raised = "none"
             /\ out'.opened = "corrupt"
             /\ out'.alone ) => metaFile'.state = "ok" ]_vars

\* C11 (witness): a stats run, opened on a damaged file that had held
\* records, has counted blobs and ended; the file is still damaged.
C11_Witness ==
    /\ out.op = "stats"
    /\ out.raised = "none"
    /\ out.opened = "corrupt"
    /\ out.alone
    /\ out.total_entries > 0
    /\ metaFile.state = "corrupt"
    /\ metaFile.doc # EmptyMap

\* C12: a stats run during which no other process changed the cache
\* directory reports as entry count the number of blobs on disk, as total
\* size the sum of their sizes, and as per-model count the number of records
\* of each model in the metadata mapping the store loaded; the blobs without
\* a record and the records without a blob are counted in their own view
\* only.
C12_StatsFromTwoSources ==
    (out.op = "stats" /\ out.raised = "none" /\ out.alone) =>
        /\ out.total_entries = Cardinality(DOMAIN blobs)
        /\ out.total_size_bytes =
               SumSizes([k \in DOMAIN blobs |-> Len(blobs[k].content)], DOMAIN blobs)
        /\ LET md == IF metaFile.state = "ok" THEN metaFile.doc ELSE EmptyMap
           IN  /\ DOMAIN out.models = { md[k].model : k \in DOMAIN md }
               /\ \A m \in DOMAIN out.models :
                     out.models[m] = Cardinality({ k \in DOMAIN md : md[k].model = m })

\* C12 (witness): stats has reported two records of one model while a
\* single blob was on disk, the other having been deleted externally.
C12_Witness ==
    /\ out.op = "stats"
    /\ out.raised = "none"
    /\ out.alone
    /\ out.total_entries = 1
    /\ \E m \in DOMAIN out.models : out.models[m] = 2

\* a stats run that counted more blobs than the metadata has records (the
\* record of a blob was lost when the store was opened on a damaged file)
C12_RecordLost ==
    /\ out.op = "stats"
    /\ out.raised = "none"
    /\ out.alone
    /\ out.total_entries = 2
    /\ DOMAIN out.models # {}
    /\ \A m \in DOMAIN out.models : out.models[m] = 1
    /\ Cardinality(DOMAIN out.models) = 1

----------------------------------------------------------------------------
(* The claims about the daemon.  In a connection, asked is the diff the    *)
(* engine was called with, engine what it returned, handled how            *)
(* _handle_request ended ("message", "error", or "failed" when the send    *)
(* raised), behind the number of connections queued ahead of it when it    *)
(* was made, and late whether the daemon had received a signal by then.    *)

\* the number of newlines of a text
RECURSIVE Newlines(_)
Newlines(s) ==
    IF s = <<>> THEN 0 ELSE (IF Head(s) = LF THEN 1 ELSE 0) + Newlines(Tail(s))

\* the text is one JSON document followed by one newline, its only one
OneLine(s) == s # <<>> /\ s[Len(s)] = LF /\ Newlines(s) = 1

\* the daemon answered connection c with the message its engine returned
\* for the diff of c, and closed the connection
ServedNormally(c) ==
    /\ conns[c].asked = conns[c].diff
    /\ conns[c].sclosed
    /\ OneLine(conns[c].resp)
    /\ \E e \in GenTimes :
          /\ e >= 0
          /\ conns[c].resp = json_dumps(response(conns[c].engine.text, e)) \o <<LF>>

\* C13: when the daemon has handled a client's connection and its engine
\* returned msg, the engine had been called with the client's diff, the
\* response is exactly one JSON object with message = msg and elapsed >= 0
\* followed by one newline, the daemon has closed the connection, and the
\* client's generate returns msg.
C13_RoundTrip ==
    /\ \A c \in DOMAIN conns :
          ( /\ conns[c].kind = "client"
            /\ conns[c].handled # "no"
            /\ "text" \in DOMAIN conns[c].engine ) => ServedNormally(c)
    /\ ( /\ out.op = "client"
         /\ "conn" \in DOMAIN out
         /\ "text" \in DOMAIN conns[out.conn].engine ) =>
            /\ out.raised = "none"
            /\ out.ret = conns[out.conn].engine

\* C13 (witness): a client whose diff holds the end marker has got back a
\* message that holds a newline.
C13_Witness ==
    /\ out.op = "client"
    /\ "conn" \in DOMAIN out
    /\ out.diff = <<LF, LF>>
    /\ out.ret = Some(<<"a", LF, "b">>)

\* C14: a request whose payload is not a JSON document is answered with one
\* JSON object {error: ...} and a newline, without the engine being called,
\* and every valid request that a client makes on a later connection to the
\* same daemon is served normally.
C14_MalformedThenServed ==
    \A a \in DOMAIN conns :
        ( /\ conns[a].kind = "raw"
          /\ ~json_loads(strip(conns[a].payload)).ok
          /\ conns[a].handled # "no" ) =>
            /\ conns[a].handled = "error"
            /\ conns[a].asked = None
            /\ OneLine(conns[a].resp)
            /\ \E e \in Exceptions : conns[a].resp = json_dumps([error |-> str(e)]) \o <<LF>>
            /\ conns[a].sclosed
            /\ \A b \in DOMAIN conns :
                  ( /\ b > a
                    /\ conns[b].to = conns[a].to
                    /\ conns[b].kind = "client"
                    /\ conns[b].handled # "no"
                    /\ "text" \in DOMAIN conns[b].engine ) => ServedNormally(b)

\* C14 (witness): a client has got its message on a connection made after
\* the same daemon answered a malformed request.
C14_Witness ==
    /\ out.op = "client"
    /\ "conn" \in DOMAIN out
    /\ out.raised = "none"
    /\ \E a \in DOMAIN conns :
          /\ a < out.conn
          /\ conns[a].kind = "raw"
          /\ conns[a].handled = "error"
          /\ conns[a].to = conns[out.conn].to

\* C15: a daemon that has installed its handlers and entered the serve loop
\* is out of the loop only if it received SIGINT or SIGTERM; a daemon that
\* ended with an exception had not begun to listen.
C15_LeavesLoopOnlyOnSignal ==
    \A p \in Pids :
        procs[p].kind = "daemon" =>
            /\ (procs[p].pc \in {"close", "stopped", "killed"}) => procs[p].signalled
            /\ (procs[p].pc = "crashed") => ~procs[p].handlers
            /\ (procs[p].handlers /\ ~procs[p].signalled) =>
                   procs[p].pc \in {"loop", "accept", "handle"}

\* C15 (witness): a daemon that was not signalled is back at accept after
\* its engine failed and after the send of an error response to a closed
\* peer raised.
C15_Witness ==
    \E p \in Pids :
        /\ procs[p].pc = "accept"
        /\ procs[p].caught
        /\ ~procs[p].signalled
        /\ \E c \in DOMAIN conns :
              conns[c].to = p /\ conns[c].engine = [raised |-> "GenerationError"]

\* C16 (as claimed): a daemon accepts no connection that was made after it
\* received SIGINT or SIGTERM in its serve loop.
C16_NoAcceptAfterSignal ==
    \A c \in DOMAIN conns : conns[c].accepted => ~conns[c].late

\* the connections whose engine.generate call is in progress in daemon p
Generating(p) == { c \in DOMAIN procs[p].handling : procs[p].handling[c].pc = "generating" }

\* C17: a daemon handles at most one connection at any moment, and at most
\* one engine.generate call is in progress in it.
C17_OneRequestAtATime ==
    \A p \in Pids :
        /\ Cardinality(DOMAIN procs[p].handling) <= 1
        /\ Cardinality(Generating(p)) <= 1

\* C17 (witness): engine.generate is in progress for one connection while
\* the connection of another client waits in the listen queue.
C17_Witness ==
    \E p \in Pids : Generating(p) # {} /\ procs[p].queue # <<>>

\* C18: when the daemon has accepted connection b, every connection a to the
\* same daemon that was queued before b has been handled to its end: its
\* response is written (unless a's peer had closed, which made the send
\* raise) and the daemon has closed it.
C18_ArrivalOrder ==
    \A a, b \in DOMAIN conns :
        (a < b /\ conns[a].to = conns[b].to /\ conns[b].accepted) =>
            /\ conns[a].accepted
            /\ conns[a].handled # "no"
            /\ conns[a].sclosed
            /\ (conns[a].handled = "failed") => conns[a].cstate = "closed"
            /\ (conns[a].handled # "failed") => OneLine(conns[a].resp)

\* C18 (witness): the daemon has accepted a connection that was made while
\* another one was waiting in the listen queue.
C18_Witness ==
    \E b \in DOMAIN conns : conns[b].accepted /\ conns[b].behind > 0

----------------------------------------------------------------------------
(* The claims about the supervisor.  A step of start_server_daemon leaves  *)
(* in `out` its stage ("check", "fork" or "write"), what the probe of the  *)
(* PID file gave and what the call reported.                               *)

\* the step is the check of the PID file by a start() call
IsStartCheck == sup.pc = "idle" /\ out'.op = "start" /\ out'.stage = "check"

\* the PID file names a live process
NamesLive == pidFile.state = "pid" /\ Alive(pidFile.pid)

\* the PID file names a process that is dead, or holds no number
IsStale == pidFile.state = "garbage" \/ (pidFile.state = "pid" /\ ~Alive(pidFile.pid))

C20_StaleIsReplaced ==
    [][ /\ (IsStartCheck /\ IsStale) =>
              /\ out'.raised = "none"
              /\ pidFile' = [state |-> "absent"]
              /\ sup'.pc = "fork"
              /\ procs' = procs
        /\ (sup.pc = "fork" /\ sup'.pc = "write") =>
              /\ sup'.child \notin Pids
              /\ procs'[sup'.child] = NewDaemon
              /\ \A p \in Pids : procs'[p] = procs[p]
              /\ pidFile' = pidFile
        /\ (sup.pc = "write" /\ sup'.pc = "idle") =>
              /\ pidFile' = [state |-> "pid", pid |-> sup.child]
              /\ procs' = procs
              /\ procs[sup.child] = NewDaemon \/ procs[sup.child].pc \in {"killed", "other"} ]_vars

\* C20 (witness): a start() that had found a PID file without a number in it
\* has written the id of the live daemon it forked.
C20_Witness ==
    /\ out.op = "start"
    /\ out.stage = "write"
    /\ out.found = "ValueError"
    /\ pidFile = [state |-> "pid", pid |-> out.child]
    /\ out.child \in Daemons

----------------------------------------------------------------------------
(* The claims about stop and status.  After a stop or status call, out
   holds the PID file and the socket file as the call found them (before,
   sockBefore), the daemons that were alive then (running), what the call
   printed (reported) and the pid it signalled (signalled, 0 for none). *)

\* C21: after a stop call that found a PID file naming a process, alive or
\* dead, the PID file is absent and the socket file is absent.
C21_StopRemovesBothFiles ==
    (out.op = "stop" /\ out.before.state = "pid")
    => (pidFile.state = "absent" /\ sockFile = 0)

\* C22: a stop call made while no daemon is alive (the PID file absent, or
\* naming a process) reports not running, raises nothing, signals no process
\* and leaves both files as they were.
C22_StopWhenStoppedIsQuiet ==
    (out.op = "stop" /\ out.running = {} /\ out.before.state \in {"absent", "pid"})
    => /\ out.reported = "not running"
       /\ out.raised = "none"
       /\ out.signalled = 0
       /\ pidFile = out.before
       /\ sockFile = out.sockBefore

\* C23: a status call reports not running when the PID file is absent,
\* running when the file names a process that os.kill(pid, 0) reaches, and
\* a stale PID file when it names one os.kill(pid, 0) fails on; it leaves
\* the PID file and the socket file as they were.
C23_StatusReportsAndKeepsFiles ==
    out.op = "status" =>
       /\ pidFile = out.before
       /\ sockFile = out.sockBefore
       /\ out.before.state = "absent"
             => (out.reported = "not running" /\ out.raised = "none")
       /\ (out.before.state = "pid" /\ os_kill(out.before.pid, 0) = "ok")
             => (out.reported = "running" /\ out.raised = "none")
       /\ (out.before.state = "pid" /\ os_kill(out.before.pid, 0) # "ok")
             => (out.reported = "stale" /\ out.raised = "none")

\* a status call found the PID file of a process that had died, reported
\* it as stale and left it in place
C23_Witness ==
    /\ out.op = "status"
    /\ out.reported = "stale"
    /\ pidFile.state = "pid"
    /\ ~Alive(pidFile.pid)

\* C24: no status call raises, whatever the PID file holds.
C24_StatusNeverRaises ==
    out.op = "status" => out.raised = "none"

\* C25: once a daemon has shut down cleanly, the socket file is not its own
\* and the PID file does not name it.
C25_CleanShutdownRemovesFiles ==
    \A p \in Pids :
        procs[p].pc = "stopped"
        => (sockFile # p /\ pidFile # [state |-> "pid", pid |-> p])

\* C28 (second part): while a daemon is listening and has not been
\* signalled, the socket path exists.
C28_ListeningHasSocketPath ==
    \A p \in Daemons :
        (procs[p].listening /\ ~procs[p].signalled) => sockFile # 0

\* C28 (first part): the PID file names a live daemon that is still loading
\* its engine, so that status reports running, and a generate call has just
\* failed with DaemonNotRunning
C28_Window ==
    /\ pidFile.state = "pid"
    /\ Probe(pidFile) = "ok"
    /\ procs[pidFile.pid].pc = "load"
    /\ sockFile = 0
    /\ out.op = "client"
    /\ out.raised = "DaemonNotRunning"

----------------------------------------------------------------------------
(* The claims about ModelClient.generate_commit_message.  A call that ends
   before any request is sent leaves out with the field attempts; a call
   that received leaves it with the field conn. *)

\* C26: in every step taken while the socket path does not exist no
\* connection is opened, and a generate call made then fails with
\* DaemonNotRunning before any connect().
C26_AbsentSocketMeansNotRunning ==
    [][ sockFile = 0 =>
          /\ DOMAIN conns' = DOMAIN conns
          /\ (out'.op = "client" /\ "attempts" \in DOMAIN out')
                => (out'.raised = "DaemonNotRunning" /\ out'.attempts = 0) ]_vars

\* a generate call failed with DaemonNotRunning after a daemon had stopped
\* and removed its socket file
C26_Witness ==
    /\ out.op = "client"
    /\ "attempts" \in DOMAIN out
    /\ out.raised = "DaemonNotRunning"
    /\ sockFile = 0
    /\ \E p \in Pids : procs[p].pc = "stopped"

\* C27: when the daemon has answered a client's connection, the client's
\* generate returns the response's message if the response has no error
\* field, and fails with the text of the error field if it has one; when the
\* daemon's engine failed, the client's generate fails with the text of that
\* failure and returns nothing.
C27_ErrorFieldDecides ==
    ( /\ out.op = "client"
      /\ "conn" \in DOMAIN out
      /\ conns[out.conn].handled \in {"message", "error"} ) =>
        LET c     == conns[out.conn]
            reply == json_loads(strip(c.resp))
        IN  /\ reply.ok
            /\ IF "error" \in DOMAIN reply.value
               THEN /\ out.raised = "Exception"
                    /\ out.error = Some(reply.value.error)
                    /\ out.ret = None
               ELSE /\ out.raised = "none"
                    /\ out.error = None
                    /\ out.ret = Some(reply.value.message)
            /\ "raised" \in DOMAIN c.engine
                  => /\ out.raised = "Exception"
                     /\ out.error = Some(str(c.engine.raised))
                     /\ out.ret = None

\* the daemon's engine failed for a client's request and the client's
\* generate failed with the text of that failure
C27_Witness ==
    /\ out.op = "client"
    /\ "conn" \in DOMAIN out
    /\ conns[out.conn].handled = "error"
    /\ "raised" \in DOMAIN conns[out.conn].engine
    /\ out.raised = "Exception"
    /\ out.error = Some(str("GenerationError"))

\* C29: in every step taken while the socket file exists and no process
\* listens on it no connection is opened, and a generate call made then
\* calls connect() once and fails with ConnectionRefusedError, not with
\* DaemonNotRunning.
C29_LeftoverSocketIsTransportError ==
    [][ (sockFile # 0 /\ ~Listening(sockFile)) =>
          /\ DOMAIN conns' = DOMAIN conns
          /\ (out'.op = "client" /\ "attempts" \in DOMAIN out')
                => (out'.raised = "ConnectionRefusedError" /\ out'.attempts = 1) ]_vars

\* a generate call was refused on the socket file a killed daemon left behind
C29_Witness ==
    /\ out.op = "client"
    /\ "attempts" \in DOMAIN out
    /\ out.raised = "ConnectionRefusedError"
    /\ out.attempts = 1
    /\ sockFile # 0
    /\ procs[sockFile].pc \in {"killed", "crashed"}

----------------------------------------------------------------------------
(* C36: a generate call that fails in the engine's constructor or in
   engine.generate had missed the cache, raises that failure, and leaves the
   blobs, the metadata and the metadata file as they were; and a call that
   misses does go to the engine (it builds it, asks it, or fails building
   it), so the next call for the same diff tries the engine again. *)
C36_FailureWritesNothing ==
    [][ /\ (out'.op = "generate" /\ out'.raised \in {"EngineInitError", "GenerationError"})
            => /\ ~Truthy(out'.cached)
               /\ out'.ret = None
               /\ blobs' = blobs
               /\ metadata' = metadata
               /\ metaFile' = metaFile
        /\ (out'.op = "generate" /\ ~Truthy(out'.cached))
            => (out'.built \/ out'.called \/ out'.raised = "EngineInitError") ]_vars

\* engine.generate failed on a miss, before any metadata file was written:
\* nothing is stored for the diff
C36_Witness ==
    /\ out.op = "generate"
    /\ out.raised = "GenerationError"
    /\ out.called
    /\ get_cache_key(out.diff, model_name) \notin DOMAIN blobs
    /\ metaFile.state = "missing"

\* C37: when two callers run start at the same time, at most one daemon is
\* alive afterwards, and once both calls have returned the PID file names it.
C37_OneDaemonFromTwoStarts ==
    /\ Cardinality(Daemons) <= 1
    /\ (sup.pc = "idle" /\ Daemons # {})
           => (pidFile.state = "pid" /\ pidFile.pid \in Daemons)

\* C38: a daemon that is in its serve loop and has not been signalled has
\* the socket path on disk, bound to itself.
C38_SocketPathBelongsToServingDaemon ==
    \A p \in Daemons :
        (procs[p].pc \in {"loop", "accept", "handle"} /\ ~procs[p].signalled)
            => sockFile = p

----------------------------------------------------------------------------
(* The claims about what a store operation leaves alone.  The record the
   metadata file holds for a key is Persisted(file, key). *)

Persisted(file, key) ==
    IF file.state = "ok" /\ key \in DOMAIN file.doc THEN Some(file.doc[key]) ELSE None

\* the step is a put (save_message) to key, by either instance
IsPutTo(key) == out'.op = "put" /\ get_cache_key(out'.diff, out'.model) = key

\* the step is one of a clear (clear_old_cache or cache_cli clear-all)
IsClearStep == cli.pc \in {"clear_scan", "clearall_scan"}

\* C34: in every step, a blob that exists is removed or changed only by a
\* put to its own key or by a clear, and the record the metadata file holds
\* for a key is removed or changed only by a put to that key or by a clear:
\* get, the clock and the puts to other keys leave them as they are.
C34_OnlyOwnPutChanges ==
    [][ /\ \A k \in DOMAIN blobs :
              (k \notin DOMAIN blobs' \/ blobs'[k] # blobs[k])
                  => (IsPutTo(k) \/ IsClearStep)
        /\ \A k \in DOMAIN blobs :
              Persisted(metaFile', k) # Persisted(metaFile, k)
                  => (IsPutTo(k) \/ IsClearStep) ]_vars

\* C39: with two instances putting, the metadata file holds a record for
\* every key whose blob was written.
C39_NoRecordLost ==
    \A k \in DOMAIN blobs : Persisted(metaFile, k) # None

----------------------------------------------------------------------------
(* C30: a generate call whose first engine construction cannot record the
   ModelInfoRecord still generates, stores and returns the message, and
   nothing is raised.  A call that builds the engine and whose engine does
   not fail must therefore return a message that is stored. *)
C30_InfoFailureIgnored ==
    (out.op = "generate" /\ out.built /\ out.raised # "GenerationError")
    => /\ out.raised = "none"
       /\ out.called
       /\ out.ret # None
       /\ get_cache_key(out.diff, model_name) \in DOMAIN blobs

\* two callers of start at the same time, and the daemons they launch
\* starting up
NextRace ==
    \/ StartCheck
    \/ StartFork
    \/ StartWrite
    \/ StartAtOnce
    \/ \E p \in Pids : DaemonUnlink(p)
    \/ \E p \in Pids : DaemonLoad(p)
    \/ \E p \in Pids : DaemonBind(p)
    \/ \E p \in Pids : DaemonInstall(p)
    \/ \E p \in Pids : DaemonLoop(p)

SpecRace == Init /\ [][NextRace]_vars

\* two instances of the store on one directory
NextTwo ==
    \/ \E d \in StatsDiffs, m \in StatsModels : Get(d, m)
    \/ \E d \in StatsDiffs, m \in StatsModels, t \in MaintTexts : Put(d, m, t)
    \/ Open2
    \/ \E d \in StatsDiffs, m \in StatsModels, t \in MaintTexts : Put2(d, m, t)
    \/ \E d \in Deltas : Tick(d)

SpecTwo == Init /\ [][NextTwo]_vars

\* configurations saved, loaded and removed
NextConfig ==
    \/ \E config \in UserConfigs : SaveConfig(config)
    \/ LoadConfig
    \/ DeleteConfig

SpecConfig == Init /\ [][NextConfig]_vars

\* the llmcommit command with the git results it meets
NextMain ==
    \/ \E args \in MainArgs : MainStart(args)
    \/ \E result \in GitResults : MainAddAll(result)
    \/ \E result \in GitResults : MainStaged(result)
    \/ \E result \in GitResults : MainUnstaged(result)
    \/ MainGenerate
    \/ \E result \in GitResults : MainCommit(result)
    \/ \E push_success \in BOOLEAN : MainPush(push_success)

SpecMain == Init /\ [][NextMain]_vars

----------------------------------------------------------------------------
(* The lifecycle of the daemon.  Created is pc "start", LoadingEngine
   "load", Listening from the bind on ("install", then Idle: "loop" and
   "accept"), Handling "handle", Stopped "stopped"; ShuttingDown begins when
   the daemon receives SIGINT or SIGTERM in its serve loop. *)

\* the steps the lifecycle allows a live daemon, as pairs of pc
LifecycleSteps ==
    { <<"start", "load">>, <<"load", "bind">>, <<"load", "crashed">>,
      <<"bind", "install">>, <<"bind", "crashed">>, <<"install", "loop">>,
      <<"loop", "accept">>, <<"accept", "handle">>, <<"handle", "loop">>,
      <<"loop", "close">>, <<"close", "stopped">> }

\* C33 without its clause on ShuttingDown: a daemon moves along the
\* lifecycle only (or is killed by a signal before its handlers are
\* installed); the socket file is absent when the engine begins to load; a
\* daemon listens only once its engine is loaded and handles a connection
\* only while it listens; a daemon whose engine failed to load has never
\* listened.
C33_Order ==
    [][ \A p \in Pids :
          /\ procs'[p].pc # procs[p].pc =>
                \/ <<procs[p].pc, procs'[p].pc>> \in LifecycleSteps
                \/ procs'[p].pc = "killed" /\ ~procs[p].handlers
          /\ (procs[p].pc = "start" /\ procs'[p].pc = "load") => sockFile' = 0
          /\ procs'[p].listening =>
                procs'[p].pc \in {"install", "loop", "accept", "handle", "close"}
          /\ DOMAIN procs'[p].handling # {} =>
                (procs'[p].listening /\ procs'[p].pc = "handle")
          /\ (procs[p].pc = "load" /\ procs'[p].pc = "crashed") =>
                (~procs[p].listening /\ sockFile' # p) ]_vars

\* C33: the lifecycle as above, and no daemon begins to handle a connection
\* after it has received the signal that begins ShuttingDown.
C33_Lifecycle ==
    [][ \A p \in Pids :
          /\ procs'[p].pc # procs[p].pc =>
                \/ <<procs[p].pc, procs'[p].pc>> \in LifecycleSteps
                \/ procs'[p].pc = "killed" /\ ~procs[p].handlers
          /\ (procs[p].pc = "start" /\ procs'[p].pc = "load") => sockFile' = 0
          /\ procs'[p].listening =>
                procs'[p].pc \in {"install", "loop", "accept", "handle", "close"}
          /\ DOMAIN procs'[p].handling # {} =>
                (procs'[p].listening /\ procs'[p].pc = "handle")
          /\ (procs[p].pc = "load" /\ procs'[p].pc = "crashed") =>
                (~procs[p].listening /\ sockFile' # p)
          /\ (procs[p].pc = "accept" /\ procs'[p].pc = "handle") =>
                ~procs[p].signalled ]_vars

\* C35: a request that is a JSON object without the field diff is answered
\* with an error response and the engine is not called for it.
C35_MissingDiffRejected ==
    \A c \in DOMAIN conns :
        conns[c].payload \in SchemaRequests =>
            /\ conns[c].asked = None
            /\ conns[c].handled \in {"no", "error"}

----------------------------------------------------------------------------
(* The claims about git and the llmcommit command.  run.calls is the list
   of the operations the run has called so far, each with its success. *)

\* every character of the text is white space
Blank(s) == \A i \in 1..Len(s) : s[i] \in Whitespace

\* C31: get_staged_diff raises nothing and returns None when git exits with
\* a failure and when git's output is empty or white space only, and the
\* stripped output otherwise; commit raises nothing and returns False when
\* git exits with a failure and True when it succeeds.
C31_GitFailuresAreValues ==
    /\ out.op = "get_staged_diff" =>
          /\ out.raised = "none"
          /\ out.result.returncode # 0 => out.ret = None
          /\ (out.result.returncode = 0 /\ Blank(out.result.stdout)) => out.ret = None
          /\ (out.result.returncode = 0 /\ ~Blank(out.result.stdout)) =>
                (out.ret # None /\ out.ret.text = strip(out.result.stdout))
    /\ out.op = "commit" =>
          /\ out.raised = "none"
          /\ out.ret = (out.result.returncode = 0)

\* git commit failed and commit returned False, after a get_staged_diff
\* whose git had failed too
C31_Witness ==
    /\ out.op = "commit"
    /\ out.result.returncode # 0
    /\ out.ret = FALSE
    /\ \E i \in 1..Len(run.calls) :
          run.calls[i] = [op |-> "get_staged_diff", ok |-> FALSE]

\* the calls of op in the run, as positions of run.calls
CallsOf(op) == { i \in 1..Len(run.calls) : run.calls[i].op = op }

\* C40: in a run, commit is called only after generate has succeeded and
\* never with --dry-run; push is called only after commit has returned
\* success and only with --push or --force-push; a run whose commit or push
\* failed has ended with a non-zero exit status.
C40_CommitAndPushOrder ==
    run.pc # "idle" =>
       /\ \A i \in CallsOf("commit") :
             /\ ~run.args.dry_run
             /\ \E j \in CallsOf("generate") : j < i /\ run.calls[j].ok
       /\ \A i \in CallsOf("push") :
             /\ run.args.push \/ run.args.force_push
             /\ \E j \in CallsOf("commit") : j < i /\ run.calls[j].ok
       /\ \A i \in CallsOf("commit") \cup CallsOf("push") :
             ~run.calls[i].ok => (run.pc = "exited" /\ run.code # 0)

\* a run with --push committed, its push failed and it exited with 1
C40_Witness ==
    /\ run.pc = "exited"
    /\ run.code = 1
    /\ run.args.push
    /\ \E i \in CallsOf("commit") : run.calls[i].ok
    /\ \E i \in CallsOf("push") : ~run.calls[i].ok

----------------------------------------------------------------------------
(* The claims about the configuration *)

\* C32 (as claimed): load_config on an existing file returns, for every key
\* of the file, the value the file holds, and for every other key of
\* DEFAULT_CONFIG the default value; the file being what save_config wrote,
\* every value saved is read back.
C32_LoadOverridesEveryKey ==
    (out.op = "load_config" /\ out.file.state = "ok") =>
        /\ DOMAIN out.ret = (DOMAIN DEFAULT_CONFIG) \cup (DOMAIN out.file.saved)
        /\ \A k \in DOMAIN out.ret :
              out.ret[k] = IF k \in DOMAIN out.file.saved THEN out.file.saved[k]
                           ELSE DEFAULT_CONFIG[k]

\* C32 (amended): the same for every key but cache_dir, whose value is
\* returned with a leading ~ replaced by the home directory.
C32_LoadOverridesButExpands ==
    (out.op = "load_config" /\ out.file.state = "ok") =>
        /\ DOMAIN out.ret = (DOMAIN DEFAULT_CONFIG) \cup (DOMAIN out.file.saved)
        /\ \A k \in DOMAIN out.ret :
              LET v == IF k \in DOMAIN out.file.saved THEN out.file.saved[k]
                       ELSE DEFAULT_CONFIG[k]
              IN  out.ret[k] = IF k = "cache_dir" THEN expanduser(v) ELSE v

\* a file that sets the model, a cache directory under ~ and a key unknown
\* to the defaults was saved and loaded
C32_Witness ==
    /\ out.op = "load_config"
    /\ out.file.state = "ok"
    /\ {"model", "cache_dir", "extra"} \subseteq DOMAIN out.file.saved
    /\ "max_tokens" \notin DOMAIN out.file.saved
    /\ out.file.saved.cache_dir = <<"~","/","c">>
    /\ out.ret.model = <<"t">>
    /\ out.ret.max_tokens = 10
    /\ out.ret.cache_dir = Home \o <<"/","c">>

====
